---- MODULE Spec2Model ----
(***************************************************************************)
(* Structure Name Parsing (TG-263): the regular expressions of             *)
(* structure_name_parsing.py, the dose conversion to_cgy, and the script   *)
(* that applies them to the list of example names.                         *)
(*                                                                         *)
(* A text is a sequence of one-character strings.  An optional value (a    *)
(* group that did not take part in a match, None, NaN) is NONE = <<>>, a   *)
(* present value v is Some(v) = <<v>>.                                     *)
(***************************************************************************)
EXTENDS Integers, Sequences, FiniteSets, TLC

NONE == <<>>
Some(v) == <<v>>
IsNone(o) == o = NONE
Val(o) == o[1]

Upper == {"A","B","C","D","E","F","G","H","I","J","K","L","M",
          "N","O","P","Q","R","S","T","U","V","W","X","Y","Z"}
Lower == {"a","b","c","d","e","f","g","h","i","j","k","l","m",
          "n","o","p","q","r","s","t","u","v","w","x","y","z"}
Digit == {"0","1","2","3","4","5","6","7","8","9"}

(***************************************************************************)
(* Regular expressions as data, and the matcher of re: of all the ways a   *)
(* pattern matches, the one a backtracking search finds first.  At every   *)
(* choice (an alternative, one more or no more repetition) it is the first *)
(* choice, in the order the search tries them, from which what is left of  *)
(* the pattern can still match.                                            *)
(***************************************************************************)
INF == 99
In(cs) == [t |-> "in", cs |-> cs]
NotIn(cs) == [t |-> "notin", cs |-> cs]
Dot == [t |-> "dot"]
Lit(w) == [t |-> "lit", w |-> w]
Ch(c) == In({c})
Cat(rs) == [t |-> "cat", rs |-> rs]
Alt(rs) == [t |-> "alt", rs |-> rs]
Rep(r, lo, hi) == [t |-> "rep", r |-> r, lo |-> lo, hi |-> hi, greedy |-> TRUE]
Lazy(r, lo, hi) == [t |-> "rep", r |-> r, lo |-> lo, hi |-> hi, greedy |-> FALSE]
Opt(r) == Rep(r, 0, 1)
Star(r) == Rep(r, 0, INF)
Plus(r) == Rep(r, 1, INF)
Grp(name, r) == [t |-> "grp", name |-> name, r |-> r]
NotAhead(r) == [t |-> "nla", r |-> r]
Bos == [t |-> "bos"]
Eos == [t |-> "eos"]
\* What is left to do of a group entered at offset from, and of a repetition
\* that has done n rounds, the last one entered at offset from.
EndGrp(name, from) == [t |-> "endgrp", name |-> name, from |-> from]
Loop(r, n, from) == [t |-> "loop", r |-> r, n |-> n, from |-> from]

RECURSIVE GroupNames(_)
GroupNames(r) ==
    CASE r.t \in {"cat", "alt"} -> UNION {GroupNames(r.rs[k]) : k \in 1..Len(r.rs)}
      [] r.t \in {"rep", "nla"} -> GroupNames(r.r)
      [] r.t = "grp" -> {r.name} \cup GroupNames(r.r)
      [] OTHER -> {}

OneChar(r) == r.t \in {"in", "notin", "dot"}

\* Whether the one-character pattern r matches the character ch.
Accepts(r, ch) ==
    CASE r.t = "in" -> ch \in r.cs
      [] r.t = "notin" -> ch \notin r.cs
      [] r.t = "dot" -> ch # "\n"

\* The counts k in lo..hi of characters from offset i on that r can take.
Runs(r, lo, hi, s, i) ==
    {k \in lo..(IF hi < Len(s) - i THEN hi ELSE Len(s) - i) :
        \A j \in 1..k : Accepts(r, s[i + j])}

\* May a repetition that has done n rounds, the last from offset from, do
\* one more at offset i: below the minimum always, above it only below the
\* maximum and when the last round took some text.
MayRepeat(r, n, from, i) == n < r.lo \/ (n < r.hi /\ i # from)

\* The offsets at which a match of r from offset i can end.
RECURSIVE Ends(_, _, _)
RECURSIVE EndsSeq(_, _, _, _)
RECURSIVE EndsLoop(_, _, _, _, _)
Ends(r, s, i) ==
    CASE OneChar(r) -> IF i < Len(s) /\ Accepts(r, s[i + 1]) THEN {i + 1} ELSE {}
      [] r.t = "lit" ->
           IF i + Len(r.w) <= Len(s) /\ SubSeq(s, i + 1, i + Len(r.w)) = r.w
           THEN {i + Len(r.w)} ELSE {}
      [] r.t = "bos" -> IF i = 0 THEN {i} ELSE {}
      [] r.t = "eos" -> IF i = Len(s) THEN {i} ELSE {}
      [] r.t = "cat" -> EndsSeq(r.rs, 1, s, {i})
      [] r.t = "alt" -> UNION {Ends(r.rs[k], s, i) : k \in 1..Len(r.rs)}
      [] r.t = "rep" ->
           IF OneChar(r.r) THEN {i + k : k \in Runs(r.r, r.lo, r.hi, s, i)}
           ELSE EndsLoop(r, 0, s, {i}, {})
      [] r.t = "grp" -> Ends(r.r, s, i)
      [] r.t = "nla" -> IF Ends(r.r, s, i) = {} THEN {i} ELSE {}
      [] r.t = "endgrp" -> {i}
      [] r.t = "loop" ->
           (IF r.n >= r.r.lo THEN {i} ELSE {})
           \cup (IF MayRepeat(r.r, r.n, r.from, i)
                 THEN EndsLoop(r.r, r.n + 1, s, Ends(r.r.r, s, i), {i})
                 ELSE {})
\* The offsets at which rs[k], rs[k+1], ... in turn can end from one of at.
EndsSeq(rs, k, s, at) ==
    IF k > Len(rs) \/ at = {} THEN at
    ELSE EndsSeq(rs, k + 1, s, UNION {Ends(rs[k], s, p) : p \in at})
\* The offsets at which the repetition r can end, n rounds done and ended at
\* one of at; seen are the offsets earlier rounds ended at.
EndsLoop(r, n, s, at, seen) ==
    (IF n >= r.lo THEN at ELSE {})
    \cup (IF at = {} \/ (n >= r.lo /\ (n >= r.hi \/ at \subseteq seen)) THEN {}
          ELSE EndsLoop(r, n + 1, s,
                        UNION {Ends(r.r, s, p) : p \in IF n >= r.lo THEN at \ seen ELSE at},
                        seen \cup at))

CanFinish(todo, s, i) == EndsSeq(todo, 1, s, {i}) # {}

Min(S) == CHOOSE k \in S : \A j \in S : k <= j
Max(S) == CHOOSE k \in S : \A j \in S : k >= j

\* The groups c as they are once todo has matched from offset i, by the
\* first way to match it; todo can match from i.
RECURSIVE Walk(_, _, _, _)
Walk(todo, s, i, c) ==
    IF todo = <<>> THEN c
    ELSE
    LET r == Head(todo)
        rest == Tail(todo)
    IN  CASE r.t = "cat" -> Walk(r.rs \o rest, s, i, c)
          [] r.t = "alt" ->
               LET k == Min({j \in 1..Len(r.rs) : CanFinish(<< r.rs[j] >> \o rest, s, i)})
               IN  Walk(<< r.rs[k] >> \o rest, s, i, c)
          [] r.t = "grp" -> Walk(<< r.r, EndGrp(r.name, i) >> \o rest, s, i, c)
          [] r.t = "endgrp" ->
               Walk(rest, s, i, [c EXCEPT ![r.name] = Some(SubSeq(s, r.from + 1, i))])
          [] r.t = "rep" /\ OneChar(r.r) ->
               LET ks == {k \in Runs(r.r, r.lo, r.hi, s, i) : CanFinish(rest, s, i + k)}
               IN  Walk(rest, s, i + (IF r.greedy THEN Max(ks) ELSE Min(ks)), c)
          [] r.t = "rep" /\ ~OneChar(r.r) -> Walk(<< Loop(r, 0, -1) >> \o rest, s, i, c)
          [] r.t = "loop" ->
               LET again == << r.r.r, Loop(r.r, r.n + 1, i) >> \o rest
                   repeat == MayRepeat(r.r, r.n, r.from, i) /\ CanFinish(again, s, i)
                   stop == r.n >= r.r.lo /\ CanFinish(rest, s, i)
               IN  IF (r.r.greedy /\ repeat) \/ (~r.r.greedy /\ ~stop)
                   THEN Walk(again, s, i, c)
                   ELSE Walk(rest, s, i, c)
          [] OTHER -> Walk(rest, s, Min(Ends(r, s, i)), c)

NoCaps(r) == [g \in GroupNames(r) |-> NONE]

\* A faulty variant of fullmatch: Pattern.match, which lets the match end
\* before the end of the text.
match(r, s) ==
    IF CanFinish(<< r >>, s, 0) THEN Some(Walk(<< r >>, s, 0, NoCaps(r))) ELSE NONE

\* Pattern.fullmatch(s).groupdict(), or NONE when there is no match.
fullmatch(r, s) ==
    IF CanFinish(<< r, Eos >>, s, 0) THEN Some(Walk(<< r, Eos >>, s, 0, NoCaps(r))) ELSE NONE

\* The groups of the first match of a pattern that begins with ^ (re.search,
\* as Series.str.extract applies it to one text), or NONE.
search(r, s) ==
    IF CanFinish(<< r >>, s, 0) THEN Some(Walk(<< r >>, s, 0, NoCaps(r))) ELSE NONE

(***************************************************************************)
(* The patterns.                                                           *)
(***************************************************************************)
\* A faulty variant of not_evaluated_pat: the lower-case z left out.
not_evaluated_pat_upper ==
    Cat(<< Grp("NotEvalChar", In({"Z", "_"})),
           Grp("NotEvaluated", Star(Dot)) >>)

not_evaluated_pat ==
    Cat(<< Grp("NotEvalChar", In({"z", "Z", "_"})),
           Grp("NotEvaluated", Star(Dot)) >>)

\* A faulty variant of basic_sub_structure_pat: a word may begin with a
\* lower-case letter.
basic_sub_structure_pat_any_case ==
    Cat(<< In(Upper \cup Lower),
           Opt(Alt(<< Plus(In(Upper)), Plus(In(Lower)) >>)),
           Opt(In({"s", "i"})),
           Opt(Ch("~")),
           Rep(In(Digit), 0, 2),
           Opt(Ch("_")),
           Opt(Ch("^")) >>)

basic_sub_structure_pat ==
    Cat(<< In(Upper),
           Opt(Alt(<< Plus(In(Upper)), Plus(In(Lower)) >>)),
           Opt(In({"s", "i"})),
           Opt(Ch("~")),
           Rep(In(Digit), 0, 2),
           Opt(Ch("_")),
           Opt(Ch("^")) >>)

basic_structure_pat ==
    Grp("StructureName", Plus(basic_sub_structure_pat))

\* The codes of the category table.
category_def ==
    { <<"A">>,
      <<"V">>,
      <<"L","N">>,
      <<"C","N">>,
      <<"G","l","n","d">>,
      <<"B","o","n","e">>,
      <<"M","u","s","c">>,
      <<"S","p","c">>,
      <<"V","B">>,
      <<"S","i","n","u","s">> }

major_category_pat ==
    Cat(<< Bos,
           Grp("StructureCategory",
               Cat(<< Alt(<< Lit(<<"A">>), Lit(<<"V">>), Lit(<<"L","N">>),
                             Lit(<<"C","N">>), Lit(<<"G","l","n","d">>),
                             Lit(<<"B","o","n","e">>), Lit(<<"M","u","s","c">>),
                             Lit(<<"V","B">>), Lit(<<"S","i","n","u","s">>) >>),
                      Opt(Grp("Pleural", In({"s", "i"}))) >>)),
           Opt(Cat(<< Ch("_"), Grp("Remainder", Star(Dot)) >>)),
           Eos >>)

custom_oar_qualifier_pat ==
    Cat(<< Bos,
           Grp("Remainder", Star(NotIn({"^"}))),
           Opt(Cat(<< Ch("^"), Grp("CustomStructure", Plus(Dot)) >>)) >>)

\* A faulty variant of vb_ref_pat: the lumbar level L left out.
vb_ref_pat_no_lumbar ==
    Cat(<< Bos,
           Grp("VertebraeLevel", In({"C", "T", "S"})),
           Grp("VertebraeNumber", Rep(In(Digit), 0, 2)),
           Opt(Cat(<< Ch("_"), Grp("Remainder", Star(Dot)) >>)),
           Eos >>)

vb_ref_pat ==
    Cat(<< Bos,
           Grp("VertebraeLevel", In({"C", "T", "L", "S"})),
           Grp("VertebraeNumber", Rep(In(Digit), 0, 2)),
           Opt(Cat(<< Ch("_"), Grp("Remainder", Star(Dot)) >>)),
           Eos >>)

cn_ref_pat ==
    Cat(<< Bos,
           Grp("NerveLevel", Plus(In({"I", "V", "X"}))),
           Opt(Cat(<< Ch("_"), Grp("Remainder", Star(Dot)) >>)),
           Eos >>)

nn_ref_pat ==
    Cat(<< Bos,
           Grp("NeckNode", Lit(<<"N","e","c","k">>)),
           Ch("_"),
           Grp("NodeLevel", Cat(<< Plus(In({"I", "V", "X"})), Opt(In({"A", "B"})) >>)),
           Opt(Cat(<< Ch("_"), Grp("Remainder", Star(Dot)) >>)),
           Eos >>)

\* The codes of the spatial table.
spatial_def ==
    { <<"L">>,
      <<"R">>,
      <<"A">>,
      <<"P">>,
      <<"I">>,
      <<"S">>,
      <<"R","U","L">>,
      <<"R","L","L">>,
      <<"R","M","L">>,
      <<"L","U","L">>,
      <<"L","L","L">>,
      <<"N","A","d","j">>,
      <<"D","i","s","t">>,
      <<"P","r","o","x">> }

spatial_pat ==
    Cat(<< Bos,
           Opt(Cat(<< Grp("Remainder", Lazy(Dot, 0, INF)), Ch("_") >>)),
           Grp("SpatialIndicator",
               Plus(Alt(<< Lit(<<"L">>), Lit(<<"R">>), Lit(<<"A">>), Lit(<<"P">>),
                           Lit(<<"I">>), Lit(<<"S">>),
                           Lit(<<"N","A","d","j">>), Lit(<<"D","i","s","t">>),
                           Lit(<<"P","r","o","x">>),
                           Lit(<<"R","U","L">>), Lit(<<"R","L","L">>),
                           Lit(<<"L","U","L">>), Lit(<<"L","L","L">>) >>))),
           Eos >>)

\* A faulty variant of prv_pat: the Remainder holds the PRV part as well.
prv_pat_keeps ==
    Cat(<< Bos,
           Grp("Remainder",
               Cat(<< Lazy(Dot, 0, INF),
                      Opt(Ch("_")),
                      Grp("Prv", Cat(<< Lit(<<"P","R","V">>),
                                        Opt(Grp("PrvSize", Rep(In(Digit), 1, 2))) >>)) >>)),
           Eos >>)

prv_pat ==
    Cat(<< Bos,
           Grp("Remainder", Lazy(Dot, 0, INF)),
           Opt(Ch("_")),
           Grp("Prv", Cat(<< Lit(<<"P","R","V">>),
                             Opt(Grp("PrvSize", Rep(In(Digit), 1, 2))) >>)),
           Eos >>)

partial_pat ==
    Cat(<< Bos,
           Grp("Remainder", Lazy(Dot, 0, INF)),
           Grp("Partial", Ch("~")),
           Eos >>)

base_structure_pat ==
    Cat(<< Bos,
           Grp("BaseStructure",
               Cat(<< Rep(Cat(<< In(Upper),
                                 Alt(<< Plus(In(Upper)), Plus(In(Lower)) >>) >>), 1, 2),
                      Opt(Grp("Pleural", In({"s", "i"}))) >>)),
           Star(Alt(<< Cat(<< Ch("_"),
                              Grp("StructureQualifier",
                                  Cat(<< In(Upper),
                                         Alt(<< Plus(In(Upper)), Plus(In(Lower)) >>) >>)) >>),
                       Cat(<< Opt(Ch("_")),
                              Grp("StructureNumber",
                                  Cat(<< Opt(In(Upper)), Plus(In(Digit)) >>)) >>) >>)),
           Grp("Remainder", Star(Dot)),
           Eos >>)

target_type_pat ==
    Alt(<< Lit(<<"G","T","V">>), Lit(<<"C","T","V">>), Lit(<<"P","T","V">>),
           Lit(<<"I","T","V">>), Lit(<<"I","G","T","V">>), Lit(<<"I","C","T","V">>),
           Lit(<<"P","T","V","!">>) >>)

target_classifier_pat ==
    Opt(Alt(<< Lit(<<"p","a","r">>), Lit(<<"v","a","s">>), Lit(<<"s","b">>),
               Lit(<<"n">>), Lit(<<"p">>), Lit(<<"v">>) >>))

target_number_pat ==
    Opt(Rep(In(Digit), 1, 2))

base_target_pat ==
    Grp("BaseTarget",
        Cat(<< Grp("TargetType", target_type_pat),
               Opt(Grp("TargetClassifier", target_classifier_pat)),
               Opt(Grp("TargetNumber", target_number_pat)) >>))

modality_pat ==
    Opt(Cat(<< Ch("_"),
               Grp("Modality",
                   Rep(Cat(<< Alt(<< Lit(<<"C","T">>), Lit(<<"P","T">>),
                                     Lit(<<"M","R">>), Lit(<<"U","S">>),
                                     Lit(<<"S","P">>) >>),
                              Rep(In(Digit), 0, 2) >>), 1, 2)) >>))

struct_ind_pat ==
    Opt(Cat(<< Ch("_"),
               NotAhead(Alt(<< Lit(<<"H","i","g">>), Lit(<<"M","i","d">>),
                               Lit(<<"L","o","w">>) >>)),
               Grp("StructureIndicator", Plus(basic_sub_structure_pat)) >>))

\* target_crop_pat as first assigned (the external crop of a target), the
\* value target_pattern is built from.
target_crop_pat ==
    Opt(Grp("ExternalCrop",
            Cat(<< Grp("Sign", Ch("-")),
                   Grp("Size", Rep(In(Digit), 2, 2)) >>)))

\* A faulty variant of rel_dose_pat: the two-digit level after High and Low
\* as well.
rel_dose_pat_any_level ==
    Grp("RelativeDose",
        Cat(<< Alt(<< Lit(<<"H","i","g","h">>), Lit(<<"L","o","w">>),
                      Lit(<<"M","i","d">>) >>),
               Opt(Grp("RelativeDoseLevel", Rep(In(Digit), 2, 2))) >>))

rel_dose_pat ==
    Grp("RelativeDose",
        Alt(<< Lit(<<"H","i","g","h">>),
               Lit(<<"L","o","w">>),
               Cat(<< Lit(<<"M","i","d">>),
                      Opt(Grp("RelativeDoseLevel", Rep(In(Digit), 2, 2))) >>) >>))

numeric_dose_pat ==
    Grp("NumericDose",
        Cat(<< Plus(In(Digit)), Opt(In({".", "p"})), Star(In(Digit)),
               Star(In({"G", "y"})) >>))

dose_fraction_pat ==
    Grp("DoseFractionation",
        Cat(<< Plus(In(Digit)), Opt(In({".", "p"})), Star(In(Digit)),
               Star(In({"G", "y"})), Ch("x"), Plus(In(Digit)) >>))

dose_specifier ==
    Opt(Cat(<< Ch("_"),
               Grp("DoseSpecifier",
                   Alt(<< rel_dose_pat, dose_fraction_pat, numeric_dose_pat >>)) >>))

target_custom_qualifier_pat ==
    Opt(Cat(<< Ch("^"), Grp("CustomTarget", Plus(Dot)) >>))

target_pattern ==
    Cat(<< base_target_pat, modality_pat, struct_ind_pat, dose_specifier,
           target_crop_pat, target_custom_qualifier_pat >>)

cropped_oar_pat ==
    Grp("CroppedOAR", Plus(basic_sub_structure_pat))

\* target_crop_pat as assigned the second time (the target cropped out of
\* an organ at risk).
target_crop_pat2 ==
    Grp("TargetCrop",
        Cat(<< target_type_pat, Opt(target_classifier_pat), Opt(target_number_pat) >>))

oar_crop_pat ==
    Grp("OARCrop", Cat(<< cropped_oar_pat, Ch("-"), target_crop_pat2 >>))

\* A faulty variant of all_structure_pattern: the catch-all tried before
\* the targets.
all_structure_pattern_basic_first ==
    Alt(<< not_evaluated_pat, basic_structure_pat, target_pattern, oar_crop_pat >>)

all_structure_pattern ==
    Alt(<< not_evaluated_pat, target_pattern, oar_crop_pat, basic_structure_pat >>)

structure_pat == all_structure_pattern

(***************************************************************************)
(* to_cgy.  A float is modelled as an exact decimal num/den with den a      *)
(* power of ten, reduced so that equal values are equal records.           *)
(***************************************************************************)
RECURSIVE Reduce(_)
Reduce(d) ==
    IF d.den > 1 /\ d.num % 10 = 0
    THEN Reduce([num |-> d.num \div 10, den |-> d.den \div 10])
    ELSE d

Times(d, n) == Reduce([num |-> d.num * n, den |-> d.den])

DigitVal(ch) ==
    CASE ch = "0" -> 0 [] ch = "1" -> 1 [] ch = "2" -> 2 [] ch = "3" -> 3
      [] ch = "4" -> 4 [] ch = "5" -> 5 [] ch = "6" -> 6 [] ch = "7" -> 7
      [] ch = "8" -> 8 [] ch = "9" -> 9

RECURSIVE DigitsVal(_, _)
\* The number written by the digits of w, after the digits read so far.
DigitsVal(w, acc) ==
    IF w = <<>> THEN acc ELSE DigitsVal(Tail(w), 10 * acc + DigitVal(Head(w)))

RECURSIVE Pow10(_)
Pow10(n) == IF n = 0 THEN 1 ELSE 10 * Pow10(n - 1)

AllDigits(w) == \A k \in 1..Len(w) : w[k] \in Digit

Unsigned(w) == IF w # <<>> /\ Head(w) \in {"+", "-"} THEN Tail(w) ELSE w
Sign(w) == IF w # <<>> /\ Head(w) = "-" THEN -1 ELSE 1

\* int(w): Some(n), or NONE where int raises ValueError.
ParseInt(w) ==
    LET u == Unsigned(w)
    IN  IF u # <<>> /\ AllDigits(u) THEN Some(Sign(w) * DigitsVal(u, 0)) ELSE NONE

\* Offset of the first ch in w, 0 when there is none.
RECURSIVE IndexOf(_, _, _)
IndexOf(w, ch, k) ==
    IF k > Len(w) THEN 0 ELSE IF w[k] = ch THEN k ELSE IndexOf(w, ch, k + 1)

\* float(w) for decimal notation: Some(d), or NONE where float raises
\* ValueError.
ParseFloat(w) ==
    LET u == Unsigned(w)
        dot == IndexOf(u, ".", 1)
        ip == IF dot = 0 THEN u ELSE SubSeq(u, 1, dot - 1)
        fp == IF dot = 0 THEN <<>> ELSE SubSeq(u, dot + 1, Len(u))
    IN  IF AllDigits(ip) /\ AllDigits(fp) /\ Len(ip) + Len(fp) > 0
        THEN Some(Reduce([num |-> Sign(w) * DigitsVal(ip \o fp, 0),
                          den |-> Pow10(Len(fp))]))
        ELSE NONE

\* A faulty variant of Replace: nothing is replaced.
ReplaceNothing(w, old, new) == w

\* str.replace(old, new) for one-character old and new.
Replace(w, old, new) == [k \in 1..Len(w) |-> IF w[k] = old THEN new ELSE w[k]]

\* A faulty variant of Split1: the text is not split.
Split1Nothing(w, sep) == << w >>

\* str.split(sep, 1) for a one-character separator.
Split1(w, sep) ==
    LET k == IndexOf(w, sep, 1)
    IN  IF k = 0 THEN << w >> ELSE << SubSeq(w, 1, k - 1), SubSeq(w, k + 1, Len(w)) >>

EndsWith(w, suffix) ==
    Len(w) >= Len(suffix)
    /\ SubSeq(w, Len(w) - Len(suffix) + 1, Len(w)) = suffix

\* A TotalDose cell: the dose as a number, or the text handed back unchanged.
DoseNumber(d) == Some([float |-> TRUE, num |-> d.num, den |-> d.den, text |-> <<>>])
DoseText(w) == Some([float |-> FALSE, num |-> 0, den |-> 1, text |-> w])

\* A faulty variant of Unconverted: the text is handed back with its p
\* replaced by a decimal point.
UnconvertedReplaced(text) ==
    [TotalDose |-> IF text = NONE THEN NONE
                   ELSE DoseText([k \in 1..Len(Val(text)) |->
                                    IF Val(text)[k] = "p" THEN "." ELSE Val(text)[k]]),
     Fractions |-> NONE]

Unconverted(text) ==
    [TotalDose |-> IF text = NONE THEN NONE ELSE DoseText(Val(text)),
     Fractions |-> NONE]

\* Whether the fraction count makes to_cgy multiply ("if fractions:").
Truthy(fractions) == fractions # NONE /\ Val(fractions) # 0

to_cgy(text) ==
    IF text = NONE \/ Val(text) = <<>> THEN Unconverted(text)
    ELSE
    LET text_cnv1 == Replace(Val(text), "p", ".")
        dose_parts == Split1(text_cnv1, "x")
        fractions == IF Len(dose_parts) > 1 THEN ParseInt(dose_parts[2]) ELSE NONE
        dose_str == dose_parts[1]
        gy == EndsWith(dose_str, <<"G", "y">>)
        parsed == IF gy THEN ParseFloat(SubSeq(dose_str, 1, Len(dose_str) - 2))
                  ELSE ParseFloat(dose_str)
    IN  IF Len(dose_parts) > 1 /\ fractions = NONE THEN Unconverted(text)
        ELSE IF parsed = NONE THEN Unconverted(text)
        ELSE LET dose == IF gy THEN Times(Val(parsed), 100) ELSE Val(parsed)
                 total_dose == IF Truthy(fractions) THEN Times(dose, Val(fractions))
                               ELSE dose
             IN  [TotalDose |-> DoseNumber(total_dose), Fractions |-> fractions]

(***************************************************************************)
(* Tables.  A DataFrame is its set of columns and its rows in order; a row *)
(* maps "Structure" (the index, once set) and every column to a cell.      *)
(***************************************************************************)
NoTable == [columns |-> {}, rows |-> <<>>]

RECURSIVE KeysOf(_, _)
KeysOf(dicts, k) ==
    IF k > Len(dicts) THEN {} ELSE DOMAIN dicts[k] \cup KeysOf(dicts, k + 1)

\* pd.DataFrame(list of dicts): a key a dict lacks is NaN in its row.
DataFrame(dicts) ==
    LET keys == KeysOf(dicts, 1)
    IN  [columns |-> keys,
         rows |-> [k \in 1..Len(dicts) |->
                     [col \in keys |->
                        IF col \in DOMAIN dicts[k] THEN dicts[k][col] ELSE NONE]]]

RECURSIVE Unique(_, _)
\* The rows of rs after the first k that equal none before them.
Unique(rs, k) ==
    IF k > Len(rs) THEN <<>>
    ELSE IF \E j \in 1..(k - 1) : rs[j] = rs[k] THEN Unique(rs, k + 1)
    ELSE << rs[k] >> \o Unique(rs, k + 1)

\* A faulty variant of drop_duplicates: every row kept.
drop_duplicates_keep_all(df) == df

drop_duplicates(df) == [df EXCEPT !.rows = Unique(df.rows, 1)]

set_index(df, col) == [df EXCEPT !.columns = df.columns \ {col}]

\* A faulty variant of Join: the rows put together by their place in the
\* tables, not by their index.
JoinByPlace(left, right) ==
    [columns |-> left.columns \cup right.columns,
     rows |-> [k \in 1..Len(left.rows) |->
                 LET row == left.rows[k]
                 IN  [col \in DOMAIN row \cup right.columns |->
                        IF col \in DOMAIN row THEN row[col]
                        ELSE IF k > Len(right.rows) THEN NONE
                        ELSE right.rows[k][col]]]]

\* DataFrame.join / merge(how='left') on the index: the rows of left, each
\* with the columns of the row of right that has its index, NaN without one.
Join(left, right) ==
    [columns |-> left.columns \cup right.columns,
     rows |-> [k \in 1..Len(left.rows) |->
                 LET row == left.rows[k]
                     hit == {j \in 1..Len(right.rows) :
                               right.rows[j].Structure = row.Structure}
                 IN  [col \in DOMAIN row \cup right.columns |->
                        IF col \in DOMAIN row THEN row[col]
                        ELSE IF hit = {} THEN NONE
                        ELSE right.rows[CHOOSE j \in hit : TRUE][col]]]]

RECURSIVE SelectRows(_, _, _)
\* df.loc[mask]: the rows from the k-th on that the mask selects.
SelectRows(rs, mask, k) ==
    IF k > Len(rs) THEN <<>>
    ELSE (IF mask[k] THEN << rs[k] >> ELSE <<>>) \o SelectRows(rs, mask, k + 1)

DropColumns(df, cols) ==
    [columns |-> df.columns \ cols,
     rows |-> [k \in 1..Len(df.rows) |->
                 [col \in DOMAIN df.rows[k] \ cols |-> df.rows[k][col]]]]

(***************************************************************************)
(* extract_name_group                                                      *)
(***************************************************************************)
\* The column a group of the extraction gets in the merge: a name the table
\* already has takes the suffix '_ex'.
Suffixed(g, columns) == IF g \in columns THEN g \o "_ex" ELSE g

\* A faulty variant of Extracted: the pattern applied to the whole name
\* again instead of to what the earlier steps left.
ExtractedFromName(row, re_pattern, selected) ==
    LET found == IF selected /\ row.StructureName # NONE
                 THEN search(re_pattern, Val(row.StructureName)) ELSE NONE
    IN  IF found = NONE THEN NoCaps(re_pattern) ELSE Val(found)

\* Series.str.extract on one row: the groups of the first match on the
\* row's Remainder, all NaN when the row is outside idx, has no Remainder
\* or does not match.
Extracted(row, re_pattern, selected) ==
    LET found == IF selected /\ row.Remainder # NONE
                 THEN search(re_pattern, Val(row.Remainder)) ELSE NONE
    IN  IF found = NONE THEN NoCaps(re_pattern) ELSE Val(found)

\* A faulty variant of ExtractRow: the Remainder is replaced by the one of
\* the extraction also where the match column is empty.
ExtractRowAlways(row, columns, re_pattern, match_column, selected) ==
    LET extr == Extracted(row, re_pattern, selected)
        groups == GroupNames(re_pattern)
        merged == [col \in DOMAIN row \cup {Suffixed(g, columns) : g \in groups} |->
                     IF col \in DOMAIN row THEN row[col]
                     ELSE extr[CHOOSE g \in groups : Suffixed(g, columns) = col]]
        updated == [merged EXCEPT !.Remainder = merged.Remainder_ex]
    IN  [col \in DOMAIN updated \ {"Remainder_ex"} |-> updated[col]]

ExtractRow(row, columns, re_pattern, match_column, selected) ==
    LET extr == Extracted(row, re_pattern, selected)
        groups == GroupNames(re_pattern)
        merged == [col \in DOMAIN row \cup {Suffixed(g, columns) : g \in groups} |->
                     IF col \in DOMAIN row THEN row[col]
                     ELSE extr[CHOOSE g \in groups : Suffixed(g, columns) = col]]
        updated == [merged EXCEPT
                      !.Remainder = IF merged[match_column] = NONE
                                    THEN merged.Remainder ELSE merged.Remainder_ex]
    IN  [col \in DOMAIN updated \ {"Remainder_ex"} |-> updated[col]]

\* idx is NONE, or Some mask that tells for each row whether it is selected.
extract_name_group(nms, re_pattern, match_column, idx) ==
    [columns |-> (nms.columns
                  \cup {Suffixed(g, nms.columns) : g \in GroupNames(re_pattern)})
                 \ {"Remainder_ex"},
     rows |-> [k \in 1..Len(nms.rows) |->
                 ExtractRow(nms.rows[k], nms.columns, re_pattern, match_column,
                            idx = NONE \/ Val(idx)[k])]]

\* A faulty variant of CategoryIs: a category with a plural marker selected
\* as well.
CategoryBeginsWith(nms, category) ==
    [k \in 1..Len(nms.rows) |->
        /\ nms.rows[k].StructureCategory # NONE
        /\ Len(Val(nms.rows[k].StructureCategory)) >= Len(category)
        /\ SubSeq(Val(nms.rows[k].StructureCategory), 1, Len(category)) = category]

\* names.StructureCategory == category, a mask over the rows of nms.
CategoryIs(nms, category) ==
    [k \in 1..Len(nms.rows) |-> nms.rows[k].StructureCategory = Some(category)]

is_vb(nms) == CategoryIs(nms, <<"V", "B">>)
\* A faulty variant of is_cn: no name is taken for a cranial nerve.
is_cn_never(nms) == [k \in 1..Len(nms.rows) |-> FALSE]

is_cn(nms) == CategoryIs(nms, <<"C", "N">>)
is_ln(nms) == CategoryIs(nms, <<"L", "N">>)

(***************************************************************************)
(* The script.                                                             *)
(***************************************************************************)
VARIABLES examples, pc, matched_structure_list, matched_structures, names,
          text, dose_dict, structures, result

vars == << examples, pc, matched_structure_list, matched_structures, names,
           text, dose_dict, structures, result >>

\* What a call of to_cgy or of a test function from outside the script reads
\* and writes.
call == << text, dose_dict, structures, result >>

\* One pass of the loop over the examples: the groups of the full match and
\* the name, or the name alone.
mtch_dict(structure) ==
    LET mtch == fullmatch(structure_pat, structure)
    IN  IF mtch # NONE
        THEN [k \in DOMAIN Val(mtch) \cup {"Structure"} |->
                IF k = "Structure" THEN Some(structure) ELSE Val(mtch)[k]]
        ELSE [k \in {"Structure"} |-> Some(structure)]

MatchStructure ==
    /\ pc = "match"
    /\ Len(matched_structure_list) < Len(examples)
    /\ matched_structure_list' =
         Append(matched_structure_list,
                mtch_dict(examples[Len(matched_structure_list) + 1]))
    /\ pc' = IF Len(matched_structure_list') = Len(examples) THEN "table" ELSE "match"
    /\ UNCHANGED << examples, matched_structures, names, call >>

\* set_index raises KeyError when the list of examples is empty.
BuildTable ==
    /\ pc = "table"
    /\ LET df == drop_duplicates(DataFrame(matched_structure_list))
       IN  IF "Structure" \in df.columns
           THEN /\ matched_structures' = set_index(df, "Structure")
                /\ pc' = "dose"
           ELSE /\ matched_structures' = matched_structures
                /\ pc' = "aborted"
    /\ UNCHANGED << examples, matched_structure_list, names, call >>

\* matched_structures.DoseSpecifier raises AttributeError when no example
\* matched, for then the table has no column of that name.
GetDoseValues ==
    /\ pc = "dose"
    /\ IF "DoseSpecifier" \in matched_structures.columns
       THEN /\ matched_structures' =
                 [columns |-> matched_structures.columns \cup {"TotalDose", "Fractions"},
                  rows |-> [k \in 1..Len(matched_structures.rows) |->
                              LET row == matched_structures.rows[k]
                                  dose_values == to_cgy(row.DoseSpecifier)
                              IN  [col \in DOMAIN row \cup {"TotalDose", "Fractions"} |->
                                     IF col \in DOMAIN row THEN row[col]
                                     ELSE dose_values[col]]]]
            /\ pc' = "failures"
       ELSE /\ matched_structures' = matched_structures
            /\ pc' = "aborted"
    /\ UNCHANGED << examples, matched_structure_list, names, call >>

unmatched_idx(df, row) == \A col \in df.columns : row[col] = NONE

IdentifyMatchFailures ==
    /\ pc = "failures"
    /\ matched_structures' =
         [columns |-> matched_structures.columns \cup {"Unmatched"},
          rows |-> [k \in 1..Len(matched_structures.rows) |->
                      LET row == matched_structures.rows[k]
                      IN  [col \in DOMAIN row \cup {"Unmatched"} |->
                             IF col \in DOMAIN row THEN row[col]
                             ELSE unmatched_idx(matched_structures, row)]]]
    /\ pc' = "nontarget"
    /\ UNCHANGED << examples, matched_structure_list, names, call >>

nt_idx(df) == [k \in 1..Len(df.rows) |-> df.rows[k].StructureName # NONE]

GetNonTarget ==
    /\ pc = "nontarget"
    /\ names' =
         LET rs == SelectRows(matched_structures.rows, nt_idx(matched_structures), 1)
         IN  [columns |-> {"StructureName", "Unmatched", "Remainder"},
              rows |-> [k \in 1..Len(rs) |->
                          [col \in {"Structure", "StructureName", "Unmatched", "Remainder"} |->
                             IF col = "Remainder" THEN rs[k].StructureName
                             ELSE rs[k][col]]]]
    /\ pc' = "category"
    /\ UNCHANGED << examples, matched_structure_list, matched_structures, call >>

\* A faulty variant of Step: the step may be taken again on its own result.
StepAgain(at, re_pattern, match_column, idx, then) ==
    /\ pc = at
    /\ names' = extract_name_group(names, re_pattern, match_column, idx)
    /\ pc' \in {at, then}
    /\ UNCHANGED << examples, matched_structure_list, matched_structures, call >>

Step(at, re_pattern, match_column, idx, then) ==
    /\ pc = at
    /\ names' = extract_name_group(names, re_pattern, match_column, idx)
    /\ pc' = then
    /\ UNCHANGED << examples, matched_structure_list, matched_structures, call >>

ParseCategory == Step("category", major_category_pat, "StructureCategory", NONE, "custom")
ParseCustom == Step("custom", custom_oar_qualifier_pat, "CustomStructure", NONE, "vb")
ParseVB == Step("vb", vb_ref_pat, "VertebraeLevel", Some(is_vb(names)), "cn")
ParseCN == Step("cn", cn_ref_pat, "NerveLevel", Some(is_cn(names)), "ln")
ParseLN == Step("ln", nn_ref_pat, "NeckNode", Some(is_ln(names)), "spatial")
ParseSpatial == Step("spatial", spatial_pat, "SpatialIndicator", NONE, "prv")
ParsePrv == Step("prv", prv_pat, "Prv", NONE, "partial")
ParsePartial == Step("partial", partial_pat, "Partial", NONE, "base")
ParseBase == Step("base", base_structure_pat, "BaseStructure", NONE, "merge")

MergeParsed ==
    /\ pc = "merge"
    /\ names' = DropColumns(names, {"StructureName", "Unmatched"})
    /\ matched_structures' = Join(matched_structures, names')
    /\ pc' = "um2"
    /\ UNCHANGED << examples, matched_structure_list, call >>

\* A faulty variant of Um2: a leftover remainder is not looked at.
Um2_never(row) == FALSE

Um2(row) == row.Remainder # NONE /\ Len(Val(row.Remainder)) > 0

IdentifyParsingFailures ==
    /\ pc = "um2"
    /\ matched_structures' =
         [matched_structures EXCEPT
            !.rows = [k \in 1..Len(matched_structures.rows) |->
                        [matched_structures.rows[k] EXCEPT
                           !.Unmatched = IF Um2(matched_structures.rows[k])
                                         THEN TRUE ELSE @]]]
    /\ pc' = "done"
    /\ UNCHANGED << examples, matched_structure_list, names, call >>

(***************************************************************************)
(* The lists of examples the script is run on.                             *)
(***************************************************************************)
\* Names the standard, the source's commentary and the specification give.
Examples == {
    <<"V","B","_","L","3","_","A","n","t">>,
    <<"L","N","_","l","l","i","a","c","_","I","n","t","_","R">>,
    <<"L","N","_","I","l","i","a","c","_","I","n","t","_","R">>,
    <<"N","a","s","a","l","c","o","n","c","h","a","_","L","I">>, <<"C","N","_","I">>,
    <<"V","B","_","S">>, <<"C","N","_","I","X","_","L">>, <<"C","N","_","X","I","I","_","R">>,
    <<"L","N","_","N","e","c","k","_","I","A","_","L">>, <<"L","N","_","A","x","_","L","1">>,
    <<"L","N","_","I","M","N">>, <<"A","_","A","o","r","t","a">>,
    <<"A","_","C","a","r","o","t","i","d">>, <<"V","_","P","o","r","t","a","l">>,
    <<"G","l","n","d","_","S","u","b","m","a","n","d">>,
    <<"B","o","n","e","_","H","y","o","i","d">>,
    <<"M","u","s","c","_","M","a","s","s","e","t","e","r">>,
    <<"M","u","s","c","_","S","c","l","m","a","s","t","_","L">>,
    <<"M","u","s","c","_","C","o","n","s","t","r","i","c","t","_","M">>,
    <<"S","p","c","_","B","o","w","e","l">>,
    <<"S","p","c","_","R","e","t","r","o","p","h","a","r","_","L">>,
    <<"S","i","n","u","s","_","F","r","o","n","t","a","l">>, <<"V","B","_","L">>,
    <<"L","u","n","g","s","^","E","x">>, <<"B","r","a","i","n","~">>,
    <<"L","u","n","g","~","_","L">>, <<"B","o","w","e","l","_","B","a","g">>,
    <<"C","a","u","d","a","E","q","u","i","n","a">>, <<"L","u","n","g","s">>,
    <<"K","i","d","n","e","y","s">>, <<"H","i","p","p","o","c","a","m","p","i">>, <<"L","N","s">>,
    <<"R","i","b","s","_","L">>, <<"C","o","l","o","n","_","P","T","V","0","9">>,
    <<"C","o","l","o","n","_","P","R","V","0","9">>,
    <<"B","l","a","d","d","e","r","_","W","a","l","l">>,
    <<"W","a","l","l","_","V","a","g","i","n","a">>, <<"B","o","l","u","s","_","0","9","m","m">>,
    <<"B","r","a","i","n","-","G","T","V">>, <<"E","-","P","T","V","_","E","v","0","5">>,
    <<"P","T","V","_","L","i","v","e","r">>,
    <<"P","T","V","_","L","i","v","e","r","_","H","i","g","h">>,
    <<"P","T","V","_","H","i","g","h">>, <<"P","T","V","_","L","o","w">>,
    <<"P","T","V","_","M","i","d">>, <<"P","T","V","_","M","i","d","0","1">>,
    <<"P","T","V","_","H","i","g","h","0","1">>, <<"P","T","V","_","L","o","w","0","1">>,
    <<"P","T","V","n">>, <<"G","T","V","p">>, <<"C","T","V","s","b">>, <<"G","T","V","p","a","r">>,
    <<"C","T","V","v">>, <<"C","T","V","v","a","s">>, <<"P","T","V","1">>, <<"G","T","V","p","2">>,
    <<"P","T","V","!">>, <<"I","G","T","V">>, <<"I","C","T","V">>, <<"I","T","V">>,
    <<"C","T","V","_","A","_","A","o","r","t","a">>, <<"G","T","V","_","P","r","e","o","p">>,
    <<"P","T","V","_","B","o","o","s","t">>, <<"P","T","V","_","E","v","a","l">>,
    <<"P","T","V","_","M","R","2","_","P","r","o","s","t","a","t","e">>,
    <<"P","T","V","_","E","v","a","l","_","7","0","0","0","-","0","8">>,
    <<"P","T","V","-","0","3">>, <<"C","T","V","p","2","-","0","5">>,
    <<"P","T","V","^","P","h","y","s","i","c","i","a","n","1">>,
    <<"G","T","V","_","L","i","v","e","r","^","I","C","G">>, <<"P","T","V","_","5","0","4","0">>,
    <<"P","T","V","_","5","0",".","4","G","y">>, <<"P","T","V","_","5","0","p","4","G","y">>,
    <<"P","T","V","_","L","i","v","e","r","_","2","0","0","0","x","3">>,
    <<"P","T","V","_","L","i","v","e","r","_","2","0","G","y","x","3">>,
    <<"P","T","V","L","i","v","e","r","R","_","2","0","0","0","x","3">>,
    <<"D","o","s","e"," ","5","0","[","%","]">>, <<"z","P","T","V">>, <<"Z","_","L","u","n","g">>,
    <<"_","L","u","n","g">>, <<"L","u","n","g","_","R","M","L">>,
    <<"L","u","n","g","_","L","_","P","R","V">>, <<"L","u","n","g","_","L","_","P","R","V","5">>,
    <<"P","T","V","_","2","0","0","0","x","3">>,
    <<"P","T","V","_","2","0","0","0","x","0">>,
    <<"P","T","V","_","5","0","G">>,
    <<"P","T","V","_","5","0","y","G">>,
    <<"P","T","V","_","5","0","G","y","G","y">>,
    <<"P","T","V","_","5","0","G","x","3">>,
    <<"V","B","s","_","S">>,
    <<"V","B","s","_","L","3">>,
    <<"C","N","s","_","I">>,
    <<"L","N","s","_","L">>,
    <<"L","N","s","_","N","e","c","k","_","I","I">>,
    <<"P","T","V","_","^">>,
    <<"P","T","V","_">> }

\* Every text made of up to n of the words of V.
RECURSIVE Soup(_, _)
Soup(V, n) ==
    IF n = 0 THEN { <<>> }
    ELSE LET shorter == Soup(V, n - 1)
         IN  shorter \cup {p \o w : p \in shorter, w \in V}

MaxTokens == 3

LevelWords == { <<"C","N">>, <<"V","B">>, <<"_">>, <<"I">>, <<"S">> }
OrganWords == { <<"L","u","n","g">>, <<"_">>, <<"L">>, <<"P","R","V">>, <<"^">> }
TargetWords == { <<"P","T","V">>, <<"_">>, <<"L","i","v","e","r">>, <<"H","i","g","h">>,
                 <<"z">> }

Names ==
    Examples \cup Soup(LevelWords, MaxTokens) \cup Soup(OrganWords, MaxTokens)
    \cup Soup(TargetWords, MaxTokens)

\* Lists of several names, the same name twice among them.
MaxBatch == 2
BatchNames == { <<"B","r","a","i","n">>, <<"P","T","V","_","5","0","4","0">>,
                <<"z","P","T","V">>, <<"D","o","s","e"," ","5","0","[","%","]">> }

RECURSIVE Lists(_, _)
Lists(S, n) ==
    IF n = 0 THEN { <<>> }
    ELSE LET shorter == Lists(S, n - 1)
         IN  shorter \cup {Append(l, x) : l \in shorter, x \in S}

\* Every name next to one that matches, and the short lists of BatchNames.
Batches == { << n, <<"B","r","a","i","n">> >> : n \in Names } \cup Lists(BatchNames, MaxBatch)

Init ==
    /\ examples \in Batches
    /\ pc = IF examples = <<>> THEN "table" ELSE "match"
    /\ matched_structure_list = <<>>
    /\ matched_structures = NoTable
    /\ names = NoTable
    /\ text = NONE
    /\ dose_dict = NONE
    /\ structures = <<>>
    /\ result = NONE

Next ==
    \/ MatchStructure
    \/ BuildTable
    \/ GetDoseValues
    \/ IdentifyMatchFailures
    \/ GetNonTarget
    \/ ParseCategory
    \/ ParseCustom
    \/ ParseVB
    \/ ParseCN
    \/ ParseLN
    \/ ParseSpatial
    \/ ParsePrv
    \/ ParsePartial
    \/ ParseBase
    \/ MergeParsed
    \/ IdentifyParsingFailures

Spec == Init /\ [][Next]_vars

(***************************************************************************)
(* to_cgy called on its own.                                               *)
(***************************************************************************)
ToCgy ==
    /\ pc = "to_cgy"
    /\ dose_dict' = Some(to_cgy(text))
    /\ pc' = "returned"
    /\ UNCHANGED << examples, matched_structure_list, matched_structures, names, text,
                    structures, result >>

\* str(n) of an integer.
DigitChar(k) == CHOOSE ch \in Digit : DigitVal(ch) = k

RECURSIVE Format(_)
Format(n) ==
    IF n < 0 THEN <<"-">> \o Format(-n)
    ELSE IF n < 10 THEN << DigitChar(n) >>
    ELSE Format(n \div 10) \o << DigitChar(n % 10) >>

MaxDigits == 2
MaxFractions == 3

\* The decimal numbers D: up to MaxDigits digits, then nothing, or a decimal
\* point written '.' or 'p' and the decimals.  Each with its value.
DoseWholes == Soup({ <<"0">>, <<"2">>, <<"5">> }, MaxDigits) \ { <<>> }
DoseDecimals == { <<>>, <<"4">>, <<"5">>, <<"2","5">> }
DoseNumbers ==
    { [text |-> w, value |-> Reduce([num |-> DigitsVal(w, 0), den |-> 1])] :
        w \in DoseWholes \cup { <<"2","0","0","0">> } }
    \cup { [text |-> w \o << point >> \o f,
            value |-> Reduce([num |-> DigitsVal(w \o f, 0), den |-> Pow10(Len(f))])] :
             w \in DoseWholes, point \in {".", "p"}, f \in DoseDecimals }

\* The fraction counts N, none among them.
FractionCounts == { NONE } \cup { Some(n) : n \in (-1)..MaxFractions }

GySuffix(gy) == IF gy THEN <<"G","y">> ELSE <<>>
FractionSuffix(n) == IF n = NONE THEN <<>> ELSE <<"x">> \o Format(Val(n))

\* The texts D, DGy, DxN and DGyxN.
DoseForms ==
    { d.text \o GySuffix(gy) \o FractionSuffix(n) :
        d \in DoseNumbers, gy \in BOOLEAN, n \in FractionCounts }

DoseWords == { <<"5">>, <<"0">>, <<"p">>, <<"G","y">>, <<"x">>, <<"H","i","g","h">> }

\* What to_cgy is called on: no text, the dose forms, and other texts.
DoseTexts ==
    { NONE } \cup { Some(t) : t \in DoseForms \cup Soup(DoseWords, MaxTokens) }

InitDose ==
    /\ examples = <<>>
    /\ pc = "to_cgy"
    /\ matched_structure_list = <<>>
    /\ matched_structures = NoTable
    /\ names = NoTable
    /\ text \in DoseTexts
    /\ dose_dict = NONE
    /\ structures = <<>>
    /\ result = NONE

NextDose == ToCgy

SpecDose == InitDose /\ [][NextDose]_vars

(***************************************************************************)
(* The test functions, each called on its own.  A Python value is a record *)
(* that tells whether it is a bool and gives its value as an integer       *)
(* (True is 1, False is 0).                                                *)
(***************************************************************************)
Bool(b) == [bool |-> TRUE, int |-> IF b THEN 1 ELSE 0]
Integer(n) == [bool |-> FALSE, int |-> n]

\* ~v: the bitwise inversion, an int also when v is a bool.
Invert(v) == Integer(-v.int - 1)

\* bool(v): whether the value counts as true.
IsTrue(v) == v.int # 0

Capitals == << "A","B","C","D","E","F","G","H","I","J","K","L","M",
               "N","O","P","Q","R","S","T","U","V","W","X","Y","Z" >>
Smalls == << "a","b","c","d","e","f","g","h","i","j","k","l","m",
             "n","o","p","q","r","s","t","u","v","w","x","y","z" >>

\* str.lower().
lower(w) ==
    [k \in 1..Len(w) |->
        IF \E j \in 1..Len(Capitals) : Capitals[j] = w[k]
        THEN Smalls[CHOOSE j \in 1..Len(Capitals) : Capitals[j] = w[k]]
        ELSE w[k]]

no_spaces(t) ==
    LET has_space == Bool(\E k \in 1..Len(t) : t[k] = " ")
    IN  Invert(has_space)

no_dup(strucs) ==
    LET unique_structures == { lower(strucs[k]) : k \in 1..Len(strucs) }
        has_dup == Bool(Cardinality(unique_structures) < Len(strucs))
    IN  Invert(has_dup)

exclude_prefixes == { "Z", "_" }

\* Called on a text that is not empty; text[0] raises IndexError on ''.
not_evaluated(t) ==
    LET exclude == Bool(t[1] \in exclude_prefixes)
    IN  exclude

NoSpaces ==
    /\ pc = "no_spaces"
    /\ result' = Some(no_spaces(Val(text)))
    /\ pc' = "no_spaces returned"
    /\ UNCHANGED << examples, matched_structure_list, matched_structures, names, text,
                    dose_dict, structures >>

NoDup ==
    /\ pc = "no_dup"
    /\ result' = Some(no_dup(structures))
    /\ pc' = "no_dup returned"
    /\ UNCHANGED << examples, matched_structure_list, matched_structures, names, text,
                    dose_dict, structures >>

NotEvaluated ==
    /\ pc = "not_evaluated"
    /\ IF Val(text) = <<>>
       THEN /\ result' = NONE
            /\ pc' = "not_evaluated raised IndexError"
       ELSE /\ result' = Some(not_evaluated(Val(text)))
            /\ pc' = "not_evaluated returned"
    /\ UNCHANGED << examples, matched_structure_list, matched_structures, names, text,
                    dose_dict, structures >>

\* The texts and the lists the test functions are called on.
TestWords == { <<"z">>, <<"Z">>, <<"_">>, <<" ">>, <<"L","u","n","g">> }
TestTexts == Names \cup Soup(TestWords, MaxTokens)

MaxList == 3
TestNames == { <<"L","u","n","g","s">>, <<"l","u","n","g","s">>, <<"L","u","n","g">>,
               <<"L","U","N","G","S">> }
TestLists == Lists(TestNames, MaxList)

InitTests ==
    /\ examples = <<>>
    /\ matched_structure_list = <<>>
    /\ matched_structures = NoTable
    /\ names = NoTable
    /\ dose_dict = NONE
    /\ result = NONE
    /\ pc \in {"no_spaces", "no_dup", "not_evaluated"}
    /\ IF pc = "no_dup"
       THEN text = NONE /\ structures \in TestLists
       ELSE text \in { Some(t) : t \in TestTexts } /\ structures = <<>>

NextTests ==
    \/ NoSpaces
    \/ NoDup
    \/ NotEvaluated

SpecTests == InitTests /\ [][NextTests]_vars

(***************************************************************************)
(* Properties of the top-level classification.                             *)
(***************************************************************************)
\* Whether the grammar r, tried alone, matches the whole of s.
Matches(r, s) == CanFinish(<< r, Eos >>, s, 0)

Field(row, col) == IF col \in DOMAIN row THEN row[col] ELSE NONE

\* The four classes in priority order, each with its grammar and the group
\* that is set exactly when the class is assigned.
ClassOrder == << "NotEvaluated", "Target", "CroppedOAR", "BasicOAR" >>
Grammar(class) ==
    CASE class = "NotEvaluated" -> not_evaluated_pat
      [] class = "Target" -> target_pattern
      [] class = "CroppedOAR" -> oar_crop_pat
      [] class = "BasicOAR" -> basic_structure_pat
Marker(class) ==
    CASE class = "NotEvaluated" -> "NotEvalChar"
      [] class = "Target" -> "BaseTarget"
      [] class = "CroppedOAR" -> "OARCrop"
      [] class = "BasicOAR" -> "StructureName"

\* The classes a record has been assigned.
Classes(d) == { ClassOrder[k] : k \in { j \in 1..4 : Field(d, Marker(ClassOrder[j])) # NONE } }

\* The first class in priority order whose grammar matches the whole name.
FirstFull(s) ==
    LET full == { k \in 1..4 : Matches(Grammar(ClassOrder[k]), s) }
    IN  IF full = {} THEN {} ELSE { ClassOrder[Min(full)] }

PTV_Liver == <<"P","T","V","_","L","i","v","e","r">>

\* C1: once the names are matched, every record has at most one class, and
\* it is the first of NotEvaluated, Target, CroppedOAR, BasicOAR whose
\* grammar matches the whole name; a name matching both the Target and the
\* BasicOAR grammar is therefore a Target without StructureName.
C1_FirstAlternativeWins ==
    pc = "table" =>
        \A k \in 1..Len(matched_structure_list) :
            LET d == matched_structure_list[k]
            IN  /\ Cardinality(Classes(d)) <= 1
                /\ Classes(d) = FirstFull(examples[k])
                /\ (Matches(target_pattern, examples[k])
                    /\ Matches(basic_structure_pat, examples[k])
                      => Classes(d) = {"Target"} /\ d.StructureName = NONE)

C1_Witness ==
    /\ pc = "table"
    /\ \E k \in 1..Len(matched_structure_list) :
         /\ examples[k] = PTV_Liver
         /\ Matches(target_pattern, PTV_Liver)
         /\ Matches(basic_structure_pat, PTV_Liver)
         /\ matched_structure_list[k].BaseTarget = Some(<<"P","T","V">>)
         /\ matched_structure_list[k].StructureName = NONE

\* A field of a match with what precedes it in the name, nothing when unset.
Part(prefix, cell) == IF cell = NONE THEN <<>> ELSE prefix \o Val(cell)

\* The text the fields of a record account for.
Consumed(d) ==
    CASE Classes(d) = {"NotEvaluated"} -> Val(d.NotEvalChar) \o Part(<<>>, d.NotEvaluated)
      [] Classes(d) = {"Target"} ->
           Val(d.BaseTarget) \o Part(<<"_">>, d.Modality)
           \o Part(<<"_">>, d.StructureIndicator) \o Part(<<"_">>, d.DoseSpecifier)
           \o Part(<<>>, d.ExternalCrop) \o Part(<<"^">>, d.CustomTarget)
      [] Classes(d) = {"CroppedOAR"} -> Val(d.OARCrop)
      [] Classes(d) = {"BasicOAR"} -> Val(d.StructureName)
      [] OTHER -> <<>>

\* C2: once the names are matched, every record is either that of one class
\* whose fields account for the whole name, with no field of another class
\* set, or a failure that holds the name and nothing else.
C2_NoPartialMatch ==
    pc = "table" =>
        \A k \in 1..Len(matched_structure_list) :
            LET d == matched_structure_list[k]
            IN  \/ DOMAIN d = {"Structure"}
                \/ /\ Cardinality(Classes(d)) = 1
                   /\ Consumed(d) = examples[k]
                   /\ \A class \in Classes(d) :
                        \A g \in DOMAIN d \ ({"Structure"} \cup GroupNames(Grammar(class))) :
                            d[g] = NONE

C2_Witness ==
    /\ pc = "table"
    /\ \E k \in 1..Len(matched_structure_list) :
         /\ examples[k] = <<"D","o","s","e"," ","5","0","[","%","]">>
         /\ Matches(basic_structure_pat, <<"D","o","s","e">>)
         /\ DOMAIN matched_structure_list[k] = {"Structure"}
    /\ \E k \in 1..Len(matched_structure_list) :
         /\ Classes(matched_structure_list[k]) = {"Target"}
         /\ Consumed(matched_structure_list[k]) = examples[k]
(***************************************************************************)
(* Properties of the records the script ends with.                         *)
(***************************************************************************)
StartsNotEvaluated(s) == s # <<>> /\ Head(s) \in {"z", "Z", "_"}

\* C3: a name that begins with z, Z or _ ends as a NotEvaluated record: its
\* first character and, as one field, all the text after it, no other field
\* set; and it is never among the names the reduction steps work on.
C3_NotEvaluatedOpaque ==
    /\ \A k \in 1..Len(names.rows) : ~StartsNotEvaluated(Val(names.rows[k].Structure))
    /\ pc = "done" =>
         \A k \in 1..Len(matched_structures.rows) :
             LET row == matched_structures.rows[k]
                 s == Val(row.Structure)
             IN  StartsNotEvaluated(s) =>
                     /\ row.NotEvalChar = Some(<< Head(s) >>)
                     /\ row.NotEvaluated = Some(Tail(s))
                     /\ \A col \in DOMAIN row \ {"Structure", "NotEvalChar", "NotEvaluated",
                                                 "Unmatched"} : row[col] = NONE
                     /\ row.Unmatched = FALSE

C3_Witness ==
    /\ pc = "done"
    /\ \E k \in 1..Len(matched_structures.rows) :
         LET row == matched_structures.rows[k]
         IN  /\ row.Structure = Some(<<"z","P","T","V">>)
             /\ Matches(target_pattern, <<"P","T","V">>)
             /\ row.NotEvaluated = Some(<<"P","T","V">>)
             /\ row.BaseTarget = NONE
    /\ names.rows # <<>>

\* The text left of a name once the reduction steps are over, none for a
\* name they did not work on.
Leftover(row) == IF row.Remainder = NONE THEN <<>> ELSE Val(row.Remainder)

\* C4: at the end a record is flagged Unmatched exactly when no grammar
\* matched the whole name, or the name is a BasicOAR and the reduction steps
\* left text over; a NotEvaluated, Target or CroppedOAR record is never
\* flagged.
C4_UnmatchedIff ==
    pc = "done" =>
        \A k \in 1..Len(matched_structures.rows) :
            LET row == matched_structures.rows[k]
                class == FirstFull(Val(row.Structure))
            IN  /\ row.Unmatched
                    <=> (class = {} \/ (class = {"BasicOAR"} /\ Leftover(row) # <<>>))
                /\ class \in {{"NotEvaluated"}, {"Target"}, {"CroppedOAR"}} => ~row.Unmatched

C4_Witness ==
    /\ pc = "done"
    /\ \E k \in 1..Len(matched_structures.rows) :
         LET row == matched_structures.rows[k]
         IN  /\ row.StructureName # NONE
             /\ Leftover(row) # <<>>
             /\ row.Unmatched
    /\ \E k \in 1..Len(matched_structures.rows) :
         LET row == matched_structures.rows[k]
         IN  /\ row.StructureName # NONE
             /\ row.Remainder = Some(<<>>)
             /\ ~row.Unmatched
(***************************************************************************)
(* Properties of the reduction steps.                                      *)
(***************************************************************************)
ReductionSteps ==
    {"category", "custom", "vb", "cn", "ln", "spatial", "prv", "partial", "base"}

\* A step from a state where a reduction step is due keeps the names and
\* leaves none with a longer remainder.
StepShrinks ==
    pc \in ReductionSteps =>
        /\ Len(names'.rows) = Len(names.rows)
        /\ \A k \in 1..Len(names.rows) :
             Len(Leftover(names'.rows[k])) <= Len(Leftover(names.rows[k]))

\* C5: no reduction step leaves a name with a longer remainder than it had
\* before the step (a remainder that is not there counts as empty).
C5_RemainderShrinks == [][StepShrinks]_vars

C5_Witness ==
    /\ pc = "merge"
    /\ \E k \in 1..Len(names.rows) :
         /\ names.rows[k].StructureName = Some(<<"L","u","n","g","_","L","_","P","R","V">>)
         /\ names.rows[k].Prv = Some(<<"P","R","V">>)
         /\ names.rows[k].BaseStructure = Some(<<"L","u","n","g">>)
         /\ names.rows[k].Remainder = Some(<<"_","L">>)

RomanLetters == {"I", "V", "X"}
VertebraeLetters == {"C", "T", "L", "S"}
SpatialLetters == {"L", "R", "A", "P", "I", "S"}

\* The number of leading characters of w that are in cs.
RECURSIVE Leading(_, _)
Leading(w, cs) ==
    IF w # <<>> /\ Head(w) \in cs THEN 1 + Leading(Tail(w), cs) ELSE 0

\* The number of trailing characters of w that are in cs.
RECURSIVE Trailing(_, _)
Trailing(w, cs) ==
    IF w # <<>> /\ w[Len(w)] \in cs THEN 1 + Trailing(SubSeq(w, 1, Len(w) - 1), cs) ELSE 0

StartsWith(w, prefix) == Len(w) >= Len(prefix) /\ SubSeq(w, 1, Len(prefix)) = prefix

Drop(w, k) == SubSeq(w, k + 1, Len(w))

\* Whether w is nothing or goes on with an underscore.
TokenEnds(w) == w = <<>> \/ Head(w) = "_"

CN_I == <<"C","N","_","I">>

\* C6: at the end, a name CN_ and Roman-numeral letters up to the end or an
\* underscore has those letters as its nerve level, and no spatial indicator
\* when nothing follows them; a name VB_ and one of C, T, L, S, with up to
\* two digits, up to the end or an underscore has that letter as vertebra
\* level, and no spatial indicator when nothing follows; and a name without
\* custom qualifier whose category is none of VB, CN, LN and that ends with
\* an underscore and a run of the letters L, R, A, P, I, S has that run as
\* its spatial indicator.
C6_Disambiguation ==
    pc = "done" =>
        \A k \in 1..Len(matched_structures.rows) :
            LET row == matched_structures.rows[k]
                s == Val(row.Structure)
                level == Drop(s, 3)
                roman == Leading(level, RomanLetters)
                digits == Leading(Drop(level, 1), Digit)
                run == Trailing(s, SpatialLetters)
            IN  /\ (/\ StartsWith(s, <<"C","N","_">>)
                    /\ roman > 0
                    /\ TokenEnds(Drop(level, roman)))
                      => /\ row.StructureCategory = Some(<<"C","N">>)
                         /\ row.NerveLevel = Some(SubSeq(level, 1, roman))
                         /\ (Drop(level, roman) = <<>> => row.SpatialIndicator = NONE)
                /\ (/\ StartsWith(s, <<"V","B","_">>)
                    /\ Leading(level, VertebraeLetters) > 0
                    /\ digits <= 2
                    /\ TokenEnds(Drop(level, 1 + digits)))
                      => /\ row.StructureCategory = Some(<<"V","B">>)
                         /\ row.VertebraeLevel = Some(<< Head(level) >>)
                         /\ row.VertebraeNumber = Some(SubSeq(level, 2, 1 + digits))
                         /\ (Drop(level, 1 + digits) = <<>> => row.SpatialIndicator = NONE)
                /\ (/\ row.StructureName # NONE
                    /\ row.StructureCategory
                         \notin {Some(<<"V","B">>), Some(<<"C","N">>), Some(<<"L","N">>)}
                    /\ row.CustomStructure = NONE
                    /\ run > 0
                    /\ run < Len(s)
                    /\ s[Len(s) - run] = "_")
                      => row.SpatialIndicator = Some(Drop(s, Len(s) - run))

C6_Witness ==
    /\ pc = "done"
    /\ \E k \in 1..Len(matched_structures.rows) :
         LET row == matched_structures.rows[k]
         IN  /\ row.Structure = Some(CN_I)
             /\ row.NerveLevel = Some(<<"I">>)
             /\ row.SpatialIndicator = NONE
             /\ search(spatial_pat, <<"I">>) # NONE
VB_L3_Ant == <<"V","B","_","L","3","_","A","n","t">>
LN_lliac_Int_R == <<"L","N","_","l","l","i","a","c","_","I","n","t","_","R">>

\* The records the script ends with for the name s.
RecordsOf(s) ==
    { matched_structures.rows[k] :
        k \in { j \in 1..Len(matched_structures.rows) :
                  pc = "done" /\ matched_structures.rows[j].Structure = Some(s) } }

\* C7 as stated: VB_L3_Ant ends with category VB, vertebra level L, number
\* 3, spatial indicator Ant, an empty remainder, and not flagged Unmatched.
C7_AsStated ==
    \A row \in RecordsOf(VB_L3_Ant) :
        /\ row.StructureCategory = Some(<<"V","B">>)
        /\ row.VertebraeLevel = Some(<<"L">>)
        /\ row.VertebraeNumber = Some(<<"3">>)
        /\ row.SpatialIndicator = Some(<<"A","n","t">>)
        /\ row.Remainder = Some(<<>>)
        /\ ~row.Unmatched

\* C7: VB_L3_Ant ends with category VB, vertebra level L, number 3, no
\* spatial indicator, Ant as its base structure, an empty remainder, and
\* not flagged Unmatched.
C7_AntIsBaseStructure ==
    \A row \in RecordsOf(VB_L3_Ant) :
        /\ row.StructureCategory = Some(<<"V","B">>)
        /\ row.VertebraeLevel = Some(<<"L">>)
        /\ row.VertebraeNumber = Some(<<"3">>)
        /\ row.SpatialIndicator = NONE
        /\ row.BaseStructure = Some(<<"A","n","t">>)
        /\ row.Remainder = Some(<<>>)
        /\ ~row.Unmatched

C7_Witness ==
    \E row \in RecordsOf(VB_L3_Ant) :
        /\ row.StructureName = Some(VB_L3_Ant)
        /\ row.BaseStructure = Some(<<"A","n","t">>)
        /\ search(spatial_pat, <<"A","n","t">>) = NONE

\* The class of LN_lliac_Int_R by the grammars alone.
LN_lliac_Class == FirstFull(LN_lliac_Int_R)

\* C8 as stated: LN_lliac_Int_R ends as a BasicOAR with category LN, a
\* remainder that is not empty, and flagged Unmatched.
C8_AsStated ==
    \A row \in RecordsOf(LN_lliac_Int_R) :
        /\ row.StructureName = Some(LN_lliac_Int_R)
        /\ row.StructureCategory = Some(<<"L","N">>)
        /\ Leftover(row) # <<>>
        /\ row.Unmatched

\* C8: LN_lliac_Int_R matches no grammar as a whole, is never among the
\* names the reduction steps work on, and ends flagged Unmatched with no
\* class, no category, no remainder and no other field set.
C8_TotalFailure ==
    /\ LN_lliac_Class = {}
    /\ \A k \in 1..Len(names.rows) : names.rows[k].Structure # Some(LN_lliac_Int_R)
    /\ \A row \in RecordsOf(LN_lliac_Int_R) :
         /\ row.Unmatched
         /\ \A col \in DOMAIN row \ {"Structure", "Unmatched"} : row[col] = NONE

C8_Witness ==
    \E row \in RecordsOf(LN_lliac_Int_R) :
        /\ row.Unmatched
        /\ row.StructureName = NONE
        /\ row.Remainder = NONE
        /\ Matches(basic_structure_pat, <<"L","N","_">>)
(***************************************************************************)
(* Properties of to_cgy.                                                   *)
(***************************************************************************)
\* What to_cgy is to return for the number d, with the Gy suffix or
\* without, and the fraction count n.
DoseOf(d, gy, n) ==
    [TotalDose |-> DoseNumber(Times(Times(d.value, IF gy THEN 100 ELSE 1),
                                    IF n = NONE THEN 1 ELSE Val(n))),
     Fractions |-> n]

PositiveCounts == { n \in FractionCounts : n = NONE \/ Val(n) > 0 }

\* C9: for a text D, DGy, DxN or DGyxN, with D a decimal number written
\* with '.' or 'p' and N a positive integer, to_cgy returns as TotalDose the
\* value of D, times 100 with the Gy suffix, times N with xN, and as
\* Fractions N, none without xN.
C9_DoseForms ==
    pc = "returned" /\ text # NONE =>
        \A gy \in BOOLEAN, n \in PositiveCounts :
            EndsWith(Val(text), GySuffix(gy) \o FractionSuffix(n)) =>
                \A d \in DoseNumbers :
                    Val(text) = d.text \o GySuffix(gy) \o FractionSuffix(n)
                        => Val(dose_dict) = DoseOf(d, gy, n)

C9_Witness ==
    /\ pc = "returned"
    /\ text = Some(<<"5","0","p","4","G","y","x","3">>)
    /\ dose_dict = Some([TotalDose |-> DoseNumber([num |-> 15120, den |-> 1]),
                         Fractions |-> Some(3)])

\* The text before the first x of w and the text after it.
BeforeX(w) == Split1(w, "x")[1]
AfterX(w) == Split1(w, "x")[2]

\* C10 as stated: when the text has an x followed by an integer N and
\* to_cgy returns a number, that number is N times what to_cgy returns for
\* the text before the x, also for N = 0.
C10_AsStated ==
    (/\ pc = "returned"
     /\ text # NONE
     /\ IndexOf(Val(text), "x", 1) > 0
     /\ ParseInt(AfterX(Val(text))) # NONE
     /\ Val(dose_dict).TotalDose # NONE
     /\ Val(Val(dose_dict).TotalDose).float)
      => LET per_fraction == Val(to_cgy(Some(BeforeX(Val(text)))).TotalDose)
             total == Val(Val(dose_dict).TotalDose)
         IN  [num |-> total.num, den |-> total.den]
               = Times(per_fraction, Val(ParseInt(AfterX(Val(text)))))

C10_ZeroFractions ==
    /\ pc = "returned"
    /\ text = Some(<<"2","0","0","0","x","0">>)
    /\ dose_dict = Some([TotalDose |-> DoseNumber([num |-> 2000, den |-> 1]),
                         Fractions |-> Some(0)])
\* Whether w is written as a decimal number: digits, at most one decimal
\* mark ('.' or 'p') among them, at least one digit, a sign before them or
\* none.
IsDecimal(w) ==
    LET u == IF w # <<>> /\ Head(w) \in {"+", "-"} THEN Tail(w) ELSE w
    IN  /\ \A k \in 1..Len(u) : u[k] \in Digit \cup {".", "p"}
        /\ Cardinality({k \in 1..Len(u) : u[k] \in {".", "p"}}) <= 1
        /\ \E k \in 1..Len(u) : u[k] \in Digit

\* Whether w is written as an integer.
IsInteger(w) ==
    LET u == IF w # <<>> /\ Head(w) \in {"+", "-"} THEN Tail(w) ELSE w
    IN  u # <<>> /\ \A k \in 1..Len(u) : u[k] \in Digit

\* The dose part of a text, its Gy suffix taken off, and its fraction part:
\* what stands before the first x and what stands after it.
DosePart(w) ==
    LET k == IndexOf(w, "x", 1)
        dose == IF k = 0 THEN w ELSE SubSeq(w, 1, k - 1)
    IN  IF Len(dose) >= 2 /\ SubSeq(dose, Len(dose) - 1, Len(dose)) = <<"G","y">>
        THEN SubSeq(dose, 1, Len(dose) - 2) ELSE dose
FractionPart(w) ==
    LET k == IndexOf(w, "x", 1)
    IN  IF k = 0 THEN NONE ELSE Some(SubSeq(w, k + 1, Len(w)))

Malformed(w) ==
    \/ ~IsDecimal(DosePart(w))
    \/ FractionPart(w) # NONE /\ ~IsInteger(Val(FractionPart(w)))

\* C11: a call of to_cgy ends with a result; for no text, an empty text,
\* and a text whose dose part or fraction part is not a number the result
\* is the input as it was given, p not replaced, as TotalDose, and no
\* Fractions; for any other text TotalDose is a number, so that a dose that
\* is not there differs from a dose of zero.
C11_MalformedReturned ==
    pc = "returned" =>
        /\ dose_dict # NONE
        /\ IF text = NONE \/ Val(text) = <<>> \/ Malformed(Val(text))
           THEN Val(dose_dict) =
                  [TotalDose |-> IF text = NONE THEN NONE ELSE DoseText(Val(text)),
                   Fractions |-> NONE]
           ELSE Val(Val(dose_dict).TotalDose).float

C11_Witness ==
    /\ pc = "returned"
    /\ text = Some(<<"5","p","x">>)
    /\ Malformed(Val(text))
    /\ dose_dict = Some([TotalDose |-> DoseText(<<"5","p","x">>), Fractions |-> NONE])
\* Whether w is a dose token of the Target grammar: a target name that ends
\* with an underscore and w has w as its DoseSpecifier.
IsDoseToken(w) ==
    LET mtch == fullmatch(target_pattern, <<"P","T","V","_">> \o w)
    IN  mtch # NONE /\ Val(mtch).DoseSpecifier = Some(w)

\* C12 as stated: for every dose token of the Target grammar, a TotalDose
\* that is a number is a whole number (of centigray), and Fractions, when
\* there, is an integer.
C12_AsStated ==
    (pc = "returned" /\ text # NONE /\ IsDoseToken(Val(text))) =>
        /\ Val(dose_dict).TotalDose # NONE /\ Val(Val(dose_dict).TotalDose).float
             => Val(Val(dose_dict).TotalDose).den = 1
        /\ Val(dose_dict).Fractions # NONE => Val(Val(dose_dict).Fractions) \in Int

C12_HalfCentigray ==
    /\ pc = "returned"
    /\ text = Some(<<"5","p","5">>)
    /\ IsDoseToken(<<"5","p","5">>)
    /\ dose_dict = Some([TotalDose |-> DoseNumber([num |-> 55, den |-> 10]),
                         Fractions |-> NONE])
(***************************************************************************)
(* Properties of the Target grammar.                                       *)
(***************************************************************************)
RelativeDoses == { <<"H","i","g","h">>, <<"L","o","w">>, <<"M","i","d">> }
Reserved == { <<"H","i","g">>, <<"M","i","d">>, <<"L","o","w">> }

\* Whether the text w holds the text part, at its beginning or after an
\* underscore for start = TRUE, anywhere otherwise.
Holds(w, part, start) ==
    \E k \in 1..(Len(w) - Len(part) + 1) :
        /\ SubSeq(w, k, k + Len(part) - 1) = part
        /\ start => (k = 1 \/ w[k - 1] = "_")

\* C13 as stated: in a Target record a name that ends with an underscore
\* and High, Low or Mid has that word as DoseSpecifier, and no word of the
\* StructureIndicator begins with Hig, Mid or Low.
C13_AsStated ==
    pc = "table" =>
        \A k \in 1..Len(matched_structure_list) :
            LET d == matched_structure_list[k]
            IN  Classes(d) = {"Target"} =>
                    /\ \A rel \in RelativeDoses :
                         EndsWith(examples[k], <<"_">> \o rel) => d.DoseSpecifier = Some(rel)
                    /\ d.StructureIndicator # NONE =>
                         \A word \in Reserved : ~Holds(Val(d.StructureIndicator), word, TRUE)

C13_Absorbed ==
    /\ pc = "table"
    /\ \E k \in 1..Len(matched_structure_list) :
         /\ examples[k] = <<"P","T","V","_","L","i","v","e","r","_","H","i","g","h">>
         /\ matched_structure_list[k].BaseTarget = Some(<<"P","T","V">>)
         /\ matched_structure_list[k].StructureIndicator
              = Some(<<"L","i","v","e","r","_","H","i","g","h">>)
         /\ matched_structure_list[k].DoseSpecifier = NONE

TwoDigits(w) == Len(w) = 2 /\ w[1] \in Digit /\ w[2] \in Digit

\* The relative dose word and what follows it in a name PTV_<word><rest>,
\* nothing for any other name.
RelativeNames(s) ==
    { << rel, Drop(s, 4 + Len(rel)) >> :
        rel \in { r \in RelativeDoses : StartsWith(s, <<"P","T","V","_">> \o r) } }

\* C14 as stated: a name PTV_ and High, Low or Mid, alone or with a
\* two-digit level, is a Target with the word and its level as DoseSpecifier.
C14_AsStated ==
    pc = "table" =>
        \A k \in 1..Len(matched_structure_list) :
            \A n \in RelativeNames(examples[k]) :
                n[2] = <<>> \/ TwoDigits(n[2]) =>
                    /\ Classes(matched_structure_list[k]) = {"Target"}
                    /\ matched_structure_list[k].DoseSpecifier = Some(n[1] \o n[2])

\* C14: a name PTV_ and High, Low or Mid is a Target with that word as
\* DoseSpecifier and no level; PTV_Mid and two digits is a Target with Mid
\* and the digits as DoseSpecifier and the digits as RelativeDoseLevel;
\* PTV_High or PTV_Low and two digits is no Target but a BasicOAR, with no
\* DoseSpecifier.
C14_LevelAfterMidOnly ==
    pc = "table" =>
        \A k \in 1..Len(matched_structure_list) :
            LET d == matched_structure_list[k]
            IN  \A n \in RelativeNames(examples[k]) :
                    /\ n[2] = <<>> =>
                         /\ Classes(d) = {"Target"}
                         /\ d.DoseSpecifier = Some(n[1])
                         /\ d.RelativeDoseLevel = NONE
                    /\ (TwoDigits(n[2]) /\ n[1] = <<"M","i","d">>) =>
                         /\ Classes(d) = {"Target"}
                         /\ d.DoseSpecifier = Some(n[1] \o n[2])
                         /\ d.RelativeDoseLevel = Some(n[2])
                    /\ (TwoDigits(n[2]) /\ n[1] # <<"M","i","d">>) =>
                         /\ Classes(d) = {"BasicOAR"}
                         /\ d.DoseSpecifier = NONE

C14_Witness ==
    /\ pc = "table"
    /\ \E k \in 1..Len(matched_structure_list) :
         /\ examples[k] = <<"P","T","V","_","H","i","g","h","0","1">>
         /\ RelativeNames(examples[k]) = { << <<"H","i","g","h">>, <<"0","1">> >> }
         /\ matched_structure_list[k].StructureName = Some(examples[k])
         /\ matched_structure_list[k].BaseTarget = NONE

\* C15 as stated: in a Target record of a name with ^ the CustomTarget is
\* the text after the first ^, and the StructureIndicator holds no ^.
C15_AsStated ==
    pc = "table" =>
        \A k \in 1..Len(matched_structure_list) :
            LET d == matched_structure_list[k]
                at == IndexOf(examples[k], "^", 1)
            IN  (Classes(d) = {"Target"} /\ at > 0) =>
                    /\ d.CustomTarget = Some(Drop(examples[k], at))
                    /\ d.StructureIndicator # NONE =>
                         ~Holds(Val(d.StructureIndicator), <<"^">>, FALSE)

C15_Absorbed ==
    /\ pc = "table"
    /\ \E k \in 1..Len(matched_structure_list) :
         /\ examples[k] = <<"G","T","V","_","L","i","v","e","r","^","I","C","G">>
         /\ matched_structure_list[k].BaseTarget = Some(<<"G","T","V">>)
         /\ matched_structure_list[k].StructureIndicator
              = Some(<<"L","i","v","e","r","^","I","C","G">>)
         /\ matched_structure_list[k].CustomTarget = NONE
(***************************************************************************)
(* Properties of the category and the spatial step.                        *)
(***************************************************************************)
Plurals == { <<>>, <<"s">>, <<"i">> }

\* The ways to read the name s as a category code with an optional plural
\* marker, alone or followed by an underscore and a rest.
CategoryForms(s) ==
    { f \in category_def \X Plurals :
        s = f[1] \o f[2] \/ StartsWith(s, f[1] \o f[2] \o <<"_">>) }

\* C16 as stated: after the category step a name that is a code of the
\* category table with an optional plural marker, alone or followed by an
\* underscore and a rest, has the code with its marker as StructureCategory
\* and the rest as Remainder (none for the code alone).
C16_AsStated ==
    pc = "custom" =>
        \A k \in 1..Len(names.rows) :
            LET row == names.rows[k]
                s == Val(row.StructureName)
            IN  \A f \in CategoryForms(s) :
                    LET code == f[1] \o f[2]
                    IN  /\ row.StructureCategory = Some(code)
                        /\ row.Remainder =
                             IF s = code THEN NONE ELSE Some(Drop(s, Len(code) + 1))

Spc_Bowel == <<"S","p","c","_","B","o","w","e","l">>

C16_SpcNotRecognised ==
    /\ pc = "custom"
    /\ \E k \in 1..Len(names.rows) :
         /\ names.rows[k].StructureName = Some(Spc_Bowel)
         /\ CategoryForms(Spc_Bowel) = { << <<"S","p","c">>, <<>> >> }
         /\ names.rows[k].StructureCategory = NONE
         /\ names.rows[k].Remainder = Some(Spc_Bowel)

\* Whether w is one or more codes of the spatial table, one after the other.
RECURSIVE IsCodes(_)
IsCodes(w) ==
    \E code \in spatial_def :
        /\ StartsWith(w, code)
        /\ Len(w) = Len(code) \/ IsCodes(Drop(w, Len(code)))

\* The place of the last underscore of w, 0 when it has none.
LastUnderscore(w) == Max({0} \cup { k \in 1..Len(w) : w[k] = "_" })

OwnStep == { Some(<<"V","B">>), Some(<<"C","N">>), Some(<<"L","N">>) }

\* Whether the row's remainder is a prefix, an underscore and spatial codes
\* up to the end, in a row whose category is none of VB, CN and LN.
SpatialForm(row) ==
    /\ row.StructureCategory \notin OwnStep
    /\ row.Remainder # NONE
    /\ LastUnderscore(Val(row.Remainder)) > 0
    /\ IsCodes(Drop(Val(row.Remainder), LastUnderscore(Val(row.Remainder))))

SpatialStepTakesCodes ==
    (pc = "spatial" /\ pc' = "prv") =>
        \A k \in 1..Len(names.rows) :
            LET r == Val(names.rows[k].Remainder)
            IN  SpatialForm(names.rows[k]) =>
                    /\ names'.rows[k].SpatialIndicator = Some(Drop(r, LastUnderscore(r)))
                    /\ names'.rows[k].Remainder = Some(SubSeq(r, 1, LastUnderscore(r) - 1))

\* C17 as stated: the spatial step turns the remainder of a row whose
\* category is none of VB, CN and LN, when it is a prefix, an underscore and
\* codes of the spatial table up to the end, into the prefix, and the codes
\* into the SpatialIndicator.
C17_AsStated == [][SpatialStepTakesCodes]_vars

Lung_RML == <<"L","u","n","g","_","R","M","L">>

C17_RmlNotRecognised ==
    /\ pc = "prv"
    /\ \E k \in 1..Len(names.rows) :
         /\ names.rows[k].StructureName = Some(Lung_RML)
         /\ IsCodes(Drop(Lung_RML, LastUnderscore(Lung_RML)))
         /\ names.rows[k].StructureCategory = NONE
         /\ names.rows[k].SpatialIndicator = NONE
         /\ names.rows[k].Remainder = Some(Lung_RML)
(***************************************************************************)
(* Properties of the run over a list of examples.                          *)
(***************************************************************************)
Built == pc \notin {"match", "table"}

\* C18 as stated: the table has as many records as the list has names.
C18_AsStated ==
    Built => Len(matched_structures.rows) = Len(examples)

\* C18: the list of dicts has one dict per name of the list, in order; the
\* table built from it has exactly one record per distinct name, so fewer
\* records than names when a name is repeated.
C18_OnePerDistinctName ==
    /\ pc = "table" =>
         /\ Len(matched_structure_list) = Len(examples)
         /\ \A k \in 1..Len(examples) :
              matched_structure_list[k].Structure = Some(examples[k])
    /\ Built =>
         /\ Len(matched_structures.rows)
              = Cardinality({ examples[k] : k \in 1..Len(examples) })
         /\ \A k \in 1..Len(examples) :
              \E j \in 1..Len(matched_structures.rows) :
                  matched_structures.rows[j].Structure = Some(examples[k])

C18_Witness ==
    /\ pc = "done"
    /\ Len(examples) = 2
    /\ examples[1] = examples[2]
    /\ Len(matched_structure_list) = 2
    /\ Len(matched_structures.rows) = 1

Matched(name) ==
    LET dict == mtch_dict(name)
        keys == GroupNames(structure_pat) \cup {"Structure"}
        dose_values == to_cgy(IF "DoseSpecifier" \in DOMAIN dict
                              THEN dict.DoseSpecifier ELSE NONE)
        row == [col \in keys \cup {"TotalDose", "Fractions"} |->
                  IF col \in DOMAIN dict THEN dict[col]
                  ELSE IF col \in DOMAIN dose_values THEN dose_values[col]
                  ELSE NONE]
        df == [columns |-> DOMAIN row \ {"Structure"}, rows |-> << row >>]
    IN  [columns |-> df.columns \cup {"Unmatched"},
         rows |-> << [col \in DOMAIN row \cup {"Unmatched"} |->
                        IF col \in DOMAIN row THEN row[col]
                        ELSE unmatched_idx(df, row)] >>]

\* The table of the non-target rows of df, each with its StructureName as
\* Remainder.
NonTarget(df) ==
    LET rs == SelectRows(df.rows, nt_idx(df), 1)
    IN  [columns |-> {"StructureName", "Unmatched", "Remainder"},
         rows |-> [k \in 1..Len(rs) |->
                     [col \in {"Structure", "StructureName", "Unmatched", "Remainder"} |->
                        IF col = "Remainder" THEN rs[k].StructureName
                        ELSE rs[k][col]]]]

\* The k-th of the nine steps of the reduction on the table nms.
StepOn(nms, k) ==
    CASE k = 1 -> extract_name_group(nms, major_category_pat, "StructureCategory", NONE)
      [] k = 2 -> extract_name_group(nms, custom_oar_qualifier_pat, "CustomStructure", NONE)
      [] k = 3 -> extract_name_group(nms, vb_ref_pat, "VertebraeLevel", Some(is_vb(nms)))
      [] k = 4 -> extract_name_group(nms, cn_ref_pat, "NerveLevel", Some(is_cn(nms)))
      [] k = 5 -> extract_name_group(nms, nn_ref_pat, "NeckNode", Some(is_ln(nms)))
      [] k = 6 -> extract_name_group(nms, spatial_pat, "SpatialIndicator", NONE)
      [] k = 7 -> extract_name_group(nms, prv_pat, "Prv", NONE)
      [] k = 8 -> extract_name_group(nms, partial_pat, "Partial", NONE)
      [] k = 9 -> extract_name_group(nms, base_structure_pat, "BaseStructure", NONE)

\* The one table that the steps from the k-th on make of nms.
RECURSIVE ReducedFrom(_, _)
ReducedFrom(nms, k) ==
    IF k > 9 THEN { nms }
    ELSE UNION { ReducedFrom(n, k + 1) : n \in { StepOn(nms, k) } }

\* The one record of the name, worked out from the name and the patterns
\* alone.
Classify(name) ==
    UNION { UNION { { [row EXCEPT !.Unmatched = IF Um2(row) THEN TRUE ELSE @] :
                        row \in { Join(df, DropColumns(parsed, {"StructureName", "Unmatched"})).rows[1] } } :
                    parsed \in UNION { ReducedFrom(nms, 1) : nms \in { NonTarget(df) } } } :
            df \in { Matched(name) } }

\* C20: the two dicts of a name that stands twice in the list are equal, and
\* at the end of a run the record of every name of the list is the record
\* worked out from that name alone, whatever the other names of the list
\* and their order.
C20_FunctionOfName ==
    /\ pc = "table" =>
         \A j, k \in 1..Len(examples) :
             examples[j] = examples[k] =>
                 matched_structure_list[j] = matched_structure_list[k]
    /\ pc = "done" =>
         \A k \in 1..Len(matched_structures.rows) :
             Classify(Val(matched_structures.rows[k].Structure))
                = { matched_structures.rows[k] }

C20_Witness ==
    /\ pc = "done"
    /\ examples = << <<"P","T","V","_","5","0","4","0">>, <<"B","r","a","i","n">> >>
    /\ matched_structures.rows[1].TotalDose # NONE
    /\ matched_structures.rows[1].BaseStructure = NONE
    /\ Classify(<<"B","r","a","i","n">>) = { matched_structures.rows[2] }
    /\ matched_structures.rows[2].BaseStructure = Some(<<"B","r","a","i","n">>)
(***************************************************************************)
(* Properties of the test functions.                                       *)
(***************************************************************************)
Lungs == <<"L","u","n","g","s">>

\* Whether two names of the list are equal when case is ignored.
HasDuplicate(strucs) ==
    \E j, k \in 1..Len(strucs) : j # k /\ lower(strucs[j]) = lower(strucs[k])

\* C21 as stated: what no_dup returns counts as true exactly when no two
\* names of the list are equal ignoring case.
C21_AsStated ==
    pc = "no_dup returned" => (IsTrue(Val(result)) <=> ~HasDuplicate(structures))

C21_DuplicateNotFlagged ==
    /\ pc = "no_dup returned"
    /\ structures = << Lungs, lower(Lungs) >>
    /\ HasDuplicate(structures)
    /\ result = Some(Integer(-2))
    /\ IsTrue(Val(result))

\* C22 as stated: not_evaluated returns on every name, True when the name
\* begins with z, Z or _ and False otherwise, which is when the grammar
\* classifies the name NotEvaluated.
C22_AsStated ==
    /\ pc # "not_evaluated raised IndexError"
    /\ pc = "not_evaluated returned" =>
         /\ Val(result).bool
         /\ IsTrue(Val(result)) <=> StartsNotEvaluated(Val(text))
         /\ IsTrue(Val(result)) <=> (Classes(mtch_dict(Val(text))) = {"NotEvaluated"})

C22_SmallZNotSeen ==
    /\ pc = "not_evaluated returned"
    /\ text = Some(<<"z","P","T","V">>)
    /\ Classes(mtch_dict(Val(text))) = {"NotEvaluated"}
    /\ result = Some(Bool(FALSE))

\* C23 as stated: what no_spaces returns counts as true when the text has
\* no space and as false when it has one.
C23_AsStated ==
    pc = "no_spaces returned" =>
        (IsTrue(Val(result)) <=> ~(\E k \in 1..Len(Val(text)) : Val(text)[k] = " "))

C23_SpaceNotFlagged ==
    /\ pc = "no_spaces returned"
    /\ text = Some(<<"D","o","s","e"," ","5","0","[","%","]">>)
    /\ result = Some(Integer(-2))
    /\ IsTrue(Val(result))
(***************************************************************************)
(* Properties of the order and the frame of the reduction steps.           *)
(***************************************************************************)
StepOrder ==
    << "category", "custom", "vb", "cn", "ln", "spatial", "prv", "partial", "base", "merge" >>

\* The column that tells whether the rule of the step has fired.
MatchColumn ==
    [category |-> "StructureCategory", custom |-> "CustomStructure",
     vb |-> "VertebraeLevel", cn |-> "NerveLevel", ln |-> "NeckNode",
     spatial |-> "SpatialIndicator", prv |-> "Prv", partial |-> "Partial",
     base |-> "BaseStructure"]

\* The category a conditional step is for.
StepCategory == [vb |-> <<"V","B">>, cn |-> <<"C","N">>, ln |-> <<"L","N">>]

\* Whether the step due has fired for the k-th name.
Fired(k) == names'.rows[k][MatchColumn[pc]] # NONE

\* Whether the step due has left the k-th name as it was.
Kept(k) ==
    \A col \in DOMAIN names.rows[k] : names'.rows[k][col] = names.rows[k][col]

RuleFrame ==
    pc \in ReductionSteps =>
        \A k \in 1..Len(names.rows) :
            /\ ~Fired(k) => Kept(k)
            /\ (/\ pc \in DOMAIN StepCategory
                /\ names.rows[k].StructureCategory # Some(StepCategory[pc]))
                  => ~Fired(k) /\ Kept(k)

\* C24: a reduction step leaves the remainder and every earlier field of a
\* name as they were when its rule does not fire for the name, and a
\* conditional step does not fire for a name of another category.
C24_NotFiredKept == [][RuleFrame]_vars

CN_S == <<"C","N","_","S">>

C24_Witness ==
    /\ pc = "cn"
    /\ \E k \in 1..Len(names.rows) :
         /\ names.rows[k].StructureName = Some(CN_S)
         /\ names.rows[k].StructureCategory = Some(<<"C","N">>)
         /\ search(vb_ref_pat, <<"S">>) # NONE
         /\ names.rows[k].VertebraeLevel = NONE
         /\ names.rows[k].Remainder = Some(<<"S">>)

\* The names in which a spatial indicator stands before a PRV part: the
\* part before the underscore and the PRV part is a prefix, an underscore
\* and spatial codes.  The set holds the codes.
ExposedCodes(row) ==
    IF row.Prv = NONE \/ row.StructureCategory # NONE THEN {}
    ELSE LET s == Val(row.StructureName)
             pre == SubSeq(s, 1, Len(s) - Len(Val(row.Prv)) - 1)
         IN  IF /\ s = pre \o <<"_">> \o Val(row.Prv)
                /\ LastUnderscore(pre) > 0
                /\ IsCodes(Drop(pre, LastUnderscore(pre)))
             THEN { Drop(pre, LastUnderscore(pre)) }
             ELSE {}

OrderKept ==
    /\ \A j \in 1..(Len(StepOrder) - 1) :
         pc = StepOrder[j] =>
             /\ pc' = StepOrder[j + 1]
             /\ \A k \in 1..Len(names.rows) :
                  \A col \in DOMAIN names.rows[k] \ {"Remainder"} :
                      names'.rows[k][col] = names.rows[k][col]
    /\ pc = "merge" =>
         \A k \in 1..Len(names.rows) :
             \A codes \in ExposedCodes(names.rows[k]) :
                 /\ names.rows[k].SpatialIndicator = NONE
                 /\ EndsWith(Leftover(names.rows[k]), <<"_">> \o codes)

\* C25: the reduction steps are taken once each in the order category,
\* custom qualifier, VB level, CN level, LN neck level, spatial indicator,
\* PRV, partial marker, base structure, and none changes a field that an
\* earlier step has set; so spatial codes that stand before a PRV part are
\* still in the remainder at the end, and the SpatialIndicator is not set.
C25_OnceInOrder == [][OrderKept]_vars

C25_Witness ==
    /\ pc = "merge"
    /\ \E k \in 1..Len(names.rows) :
         /\ names.rows[k].StructureName = Some(<<"L","u","n","g","_","L","_","P","R","V","5">>)
         /\ ExposedCodes(names.rows[k]) = { <<"L">> }
         /\ names.rows[k].Prv = Some(<<"P","R","V","5">>)
         /\ names.rows[k].SpatialIndicator = NONE
         /\ names.rows[k].Remainder = Some(<<"_","L">>)

\* Whether part is a contiguous part of w.
PartOf(part, w) ==
    \E k \in 0..(Len(w) - Len(part)) : SubSeq(w, k + 1, k + Len(part)) = part

FiredShortens ==
    /\ pc \in ReductionSteps =>
         \A k \in 1..Len(names.rows) :
             (Fired(k) /\ names'.rows[k].Remainder # NONE) =>
                 LET old == Leftover(names.rows[k])
                     new == Val(names'.rows[k].Remainder)
                 IN  /\ Len(new) < Len(old)
                     /\ StartsWith(old, new) \/ EndsWith(old, new)
    /\ pc = "merge" =>
         \A k \in 1..Len(names.rows) :
             PartOf(Leftover(names.rows[k]), Val(names.rows[k].StructureName))

\* C29: when the rule of a reduction step fires for a name, the new
\* remainder is not there or is a shorter text that the old remainder
\* begins or ends with; after the last step the remainder is a contiguous
\* part of the name.
C29_PrefixOrSuffix == [][FiredShortens]_vars

C29_Witness ==
    /\ pc = "partial"
    /\ \E k \in 1..Len(names.rows) :
         /\ names.rows[k].StructureName = Some(<<"C","o","l","o","n","_","P","R","V","0","9">>)
         /\ names.rows[k].Prv = Some(<<"P","R","V","0","9">>)
         /\ names.rows[k].Remainder = Some(<<"C","o","l","o","n">>)

\* The categories VB, CN and LN with a plural marker.
PluralCategories ==
    { Some(StepCategory[step] \o plural) :
        step \in DOMAIN StepCategory, plural \in Plurals \ { <<>> } }

\* C30: at the end a name whose category is VB, CN or LN with a plural
\* marker has no VertebraeLevel, NerveLevel or NeckNode, and when the
\* category is followed by an underscore and the one letter S, I or L that
\* letter is its SpatialIndicator.
C30_PluralNotSelected ==
    pc = "merge" =>
        \A k \in 1..Len(names.rows) :
            LET row == names.rows[k]
            IN  row.StructureCategory \in PluralCategories =>
                    /\ row.VertebraeLevel = NONE
                    /\ row.NerveLevel = NONE
                    /\ row.NeckNode = NONE
                    /\ \A letter \in {"S", "I", "L"} :
                         row.StructureName
                            = Some(Val(row.StructureCategory) \o <<"_", letter>>)
                           => row.SpatialIndicator = Some(<< letter >>)

C30_Witness ==
    /\ pc = "merge"
    /\ \E k \in 1..Len(names.rows) :
         /\ names.rows[k].StructureName = Some(<<"V","B","s","_","S">>)
         /\ names.rows[k].StructureCategory = Some(<<"V","B","s">>)
         /\ names.rows[k].VertebraeLevel = NONE
         /\ names.rows[k].SpatialIndicator = Some(<<"S">>)
(***************************************************************************)
(* Properties of the dose tokens of target names.                          *)
(***************************************************************************)
Dosed == pc \in {"failures", "nontarget"}

\* What stands after the last underscore of the name.
LastToken(s) == Drop(s, LastUnderscore(s))

\* Whether w is digits with at most one decimal mark among them, a digit
\* first.
IsDoseNumber(w) == w # <<>> /\ w[1] \in Digit /\ IsDecimal(w)

\* Whether w is a dose, with Gy or without, an x and a count of fractions.
IsFractionForm(w) ==
    /\ FractionPart(w) # NONE
    /\ IsDoseNumber(DosePart(w))
    /\ AllDigits(Val(FractionPart(w))) /\ Val(FractionPart(w)) # <<>>

\* C26: after the dose values are worked out, a target record whose name
\* ends with an underscore and a token <dose>x<fractions> has the whole
\* token as DoseSpecifier and as DoseFractionation, no NumericDose, and the
\* count after the x as Fractions.
C26_FractionFormFirst ==
    Dosed =>
        \A k \in 1..Len(matched_structures.rows) :
            LET row == matched_structures.rows[k]
                token == LastToken(Val(row.Structure))
            IN  ("BaseTarget" \in DOMAIN row /\ row.BaseTarget # NONE /\ IsFractionForm(token)) =>
                    /\ row.DoseSpecifier = Some(token)
                    /\ row.DoseFractionation = Some(token)
                    /\ row.NumericDose = NONE
                    /\ row.Fractions = Some(DigitsVal(Val(FractionPart(token)), 0))

C26_Witness ==
    /\ pc = "failures"
    /\ \E k \in 1..Len(matched_structures.rows) :
         LET row == matched_structures.rows[k]
         IN  /\ row.Structure = Some(<<"P","T","V","_","L","i","v","e","r","_","2","0","G","y","x","3">>)
             /\ IsFractionForm(LastToken(Val(row.Structure)))
             /\ row.DoseFractionation = Some(<<"2","0","G","y","x","3">>)
             /\ row.Fractions = Some(3)
             /\ row.TotalDose = DoseNumber([num |-> 6000, den |-> 1])

TargetCodes ==
    { <<"G","T","V">>, <<"C","T","V">>, <<"P","T","V">>, <<"I","T","V">>,
      <<"I","G","T","V">>, <<"I","C","T","V">> }

\* C27 as stated: no name that begins with a target type and an underscore
\* is classified BasicOAR.
C27_AsStated ==
    pc = "table" =>
        \A k \in 1..Len(matched_structure_list) :
            (\E code \in TargetCodes : StartsWith(examples[k], code \o <<"_">>)) =>
                Classes(matched_structure_list[k]) # {"BasicOAR"}

C27_TargetAsBasicOAR ==
    /\ pc = "table"
    /\ \E k \in 1..Len(matched_structure_list) :
         /\ examples[k] = <<"P","T","V","_","L","o","w","0","1">>
         /\ Classes(matched_structure_list[k]) = {"BasicOAR"}
         /\ matched_structure_list[k].StructureName = Some(examples[k])

\* Whether w is a dose, with Gy or without, and a count of fractions after
\* an x or none.
IsDoseForm(w) ==
    /\ IsDoseNumber(DosePart(w))
    /\ FractionPart(w) # NONE =>
         AllDigits(Val(FractionPart(w))) /\ Val(FractionPart(w)) # <<>>

\* C28 as stated: the DoseSpecifier of a target record with a NumericDose
\* or a DoseFractionation is a number with the unit Gy or with no unit
\* (and a count of fractions or none), and its TotalDose is a number.
C28_AsStated ==
    Dosed =>
        \A k \in 1..Len(matched_structures.rows) :
            LET row == matched_structures.rows[k]
            IN  ("NumericDose" \in DOMAIN row
                 /\ (row.NumericDose # NONE \/ row.DoseFractionation # NONE)) =>
                    /\ IsDoseForm(Val(row.DoseSpecifier))
                    /\ Val(row.TotalDose).float

C28_UnitNotGy ==
    /\ pc = "failures"
    /\ \E k \in 1..Len(matched_structures.rows) :
         LET row == matched_structures.rows[k]
         IN  /\ row.Structure = Some(<<"P","T","V","_","5","0","G">>)
             /\ row.NumericDose = Some(<<"5","0","G">>)
             /\ row.DoseSpecifier = Some(<<"5","0","G">>)
             /\ ~IsDoseForm(<<"5","0","G">>)
             /\ row.TotalDose = DoseText(<<"5","0","G">>)
             /\ row.Fractions = NONE
====
